---- MODULE Spec2Model ----
(***************************************************************************)
(* RECURSUM: layered recurrence evaluators for Hermite expansion           *)
(* coefficients E^{nA,nB}_t and Hermite-Coulomb integrals R_{tuv}^{(N)}.    *)
(*                                                                         *)
(* Vec8d values are modelled as exact rationals <<n, d>> in lowest terms   *)
(* (d > 0): one lane, no rounding; the arithmetic operators of Vec8d are   *)
(* functions on such pairs.  Every evaluator is translated step by step    *)
(* from its source; the brute-force template recursions are RECURSIVE      *)
(* operators.                                                              *)
(***************************************************************************)
EXTENDS Integers, Sequences, FiniteSets, TLC

\* ------------------------------------------------------------------------
\* Bounds of the model
\* ------------------------------------------------------------------------
\* largest L_total evaluated with every geometry and every Boys table
MaxLTotal == 5
\* number of geometries of the list Geoms that calls may use
NumGeom == 2
\* number of layered evaluator calls one run of the calling program makes
MaxCalls == 2
\* largest L_total and largest nA + nB of the calls of a run that makes
\* more than one call
MaxRepeatL == 2

\* ------------------------------------------------------------------------
\* Vec8d arithmetic (one lane, exact)
\* ------------------------------------------------------------------------
Abs(x) == IF x < 0 THEN -x ELSE x

RECURSIVE GCD(_, _)
GCD(a, b) == IF b = 0 THEN a ELSE GCD(b, a % b)

\* the value n/d in lowest terms, d # 0
Rat(n, d) ==
    LET g == GCD(Abs(n), Abs(d))
        s == IF d < 0 THEN -1 ELSE 1
    IN  <<(s * n) \div g, (s * d) \div g>>

\* Vec8d(k) for an integer k
Vec8d(k) == <<k, 1>>
Zero == Vec8d(0)
One == Vec8d(1)
\* Vec8d(0.5)
Half == <<1, 2>>

RAdd[a \in Int \X Int, b \in Int \X Int] ==
    IF a[2] = b[2] THEN
        Rat(a[1] + b[1], a[2])
    ELSE
        LET g == GCD(a[2], b[2])
        IN  Rat(a[1] * (b[2] \div g) + b[1] * (a[2] \div g), (a[2] \div g) * b[2])

RMul[a \in Int \X Int, b \in Int \X Int] ==
    IF a[1] * b[1] = 0 THEN
        Zero
    ELSE
        LET g1 == GCD(Abs(a[1]), b[2])
            g2 == GCD(Abs(b[1]), a[2])
        IN  <<(a[1] \div g1) * (b[1] \div g2), (a[2] \div g2) * (b[2] \div g1)>>

RNeg[a \in Int \X Int] == <<-a[1], a[2]>>

\* a / b for b # 0
RDiv[a \in Int \X Int, b \in Int \X Int] == RMul[a, Rat(b[2], b[1])]

\* ------------------------------------------------------------------------
\* IndexScheme (coulomb_r_layered.hpp)
\* ------------------------------------------------------------------------
MAX_R_L == 16

tetrahedral(L) == ((L + 1) * (L + 2) * (L + 3)) \div 6

\* slip: the division by 2 is missing
triangular_mut(L) == (L + 1) * (L + 2)

triangular(L) == ((L + 1) * (L + 2)) \div 2

MAX_R_SIZE == tetrahedral(MAX_R_L)

\* slip: uv_offset = triangular(uv) instead of triangular(uv - 1)
r_index_mut(t, u, v) ==
    LET L == t + u + v
        shell_offset == tetrahedral(L - 1)
        uv == u + v
        uv_offset == triangular(uv)
    IN  shell_offset + uv_offset + v

r_index(t, u, v) ==
    LET L == t + u + v
        shell_offset == tetrahedral(L - 1)
        uv == u + v
        uv_offset == triangular(uv - 1)
    IN  shell_offset + uv_offset + v

\* all (t,u,v) with t,u,v >= 0 and t+u+v <= L
Triples(L) ==
    {tuv \in (0..L) \X (0..L) \X (0..L) : tuv[1] + tuv[2] + tuv[3] <= L}

\* ------------------------------------------------------------------------
\* Inputs
\* ------------------------------------------------------------------------
\* geometries: PC for the Coulomb evaluators, PA, PB, p, alpha_A, alpha_B for
\* the Hermite ones.  Geoms[1] is the concrete scenario of the specification
\* (PA = 0.5, PB = -0.3, p = 2.0; PCx = 0.5, PCy = 0.3, PCz = 0.2).
Geoms == <<
    [PCx |-> <<1, 2>>, PCy |-> <<3, 10>>, PCz |-> <<1, 5>>,
     PA |-> <<1, 2>>, PB |-> <<-3, 10>>, p |-> <<2, 1>>,
     alpha_A |-> <<1, 2>>, alpha_B |-> <<3, 2>>],
    [PCx |-> <<2, 1>>, PCy |-> <<-1, 1>>, PCz |-> <<3, 1>>,
     PA |-> <<-2, 1>>, PB |-> <<3, 1>>, p |-> <<1, 4>>,
     alpha_A |-> <<1, 1>>, alpha_B |-> <<-3, 4>>],
    [PCx |-> <<-1, 2>>, PCy |-> <<1, 1>>, PCz |-> <<2, 3>>,
     PA |-> <<2, 3>>, PB |-> <<1, 1>>, p |-> <<-1, 2>>,
     alpha_A |-> <<2, 1>>, alpha_B |-> <<-5, 2>>]
>>

GeomSet == {Geoms[i] : i \in 1..NumGeom}

\* the geometry used for the large shells (MaxLTotal < L_total <= MAX_R_L),
\* whose values stay small
UnitGeom ==
    [PCx |-> <<1, 1>>, PCy |-> <<-1, 1>>, PCz |-> <<1, 1>>,
     PA |-> <<1, 1>>, PB |-> <<-1, 1>>, p |-> <<1, 2>>,
     alpha_A |-> <<1, 1>>, alpha_B |-> <<-1, 2>>]

\* Boys tables of exactly L+1 entries, indexed 0..L: the degenerate table of
\* the specification's scenario and a table whose neighbours differ
BoysOnes(L) == [n \in 0..L |-> One]
BoysCycle(L) == [n \in 0..L |-> Vec8d((n % 3) + 1)]
BoysTables(L) == {BoysOnes(L), BoysCycle(L)}

\* slip: every read of the table gives its first entry
BoysAt_mut(B, n, junk) == IF n \in DOMAIN B THEN B[0] ELSE junk

\* what a read of the table at index n gives: an entry, or any value when n
\* is outside the table (undefined behaviour)
BoysAt(B, n, junk) == IF n \in DOMAIN B THEN B[n] ELSE junk

\* slip: the buffers are sized for the largest generated shell only
ZeroR_mut == [i \in 0..(tetrahedral(4) - 1) |-> Zero]

\* std::array<Vec8d, MAX_R_SIZE> x{}
ZeroR == [i \in 0..(MAX_R_SIZE - 1) |-> Zero]

\* a read of a shell buffer at offset i (any value outside the buffer)
At(a, i, junk) == IF i \in DOMAIN a THEN a[i] ELSE junk

\* a write of a shell buffer at offset i (dropped outside the buffer)
Put(a, i, x) == IF i \in DOMAIN a THEN [a EXCEPT ![i] = x] ELSE a

Junk == {Zero, One}

\* ------------------------------------------------------------------------
\* Brute-force recursion CoulombR<t,u,v,N>::compute (coulomb_aux.hpp)
\* ------------------------------------------------------------------------
\* slip: the primary templates return Vec8d(1.0)
InvalidCase_mut == Vec8d(1)

\* what the primary templates CoulombR and HermiteE return for an index
\* combination no specialization accepts: return Vec8d(0.0)
InvalidCase == Vec8d(0)

RECURSIVE CoulombR(_, _, _, _, _, _, _, _)
CoulombR(t, u, v, N, PCx, PCy, PCz, B) ==
    IF t = 0 /\ u = 0 /\ v = 0 /\ N >= 0 THEN
        B[N]
    ELSE IF t > 0 /\ u >= 0 /\ v >= 0 /\ N >= 0 THEN
        LET term1 == RMul[PCx, CoulombR(t - 1, u, v, N + 1, PCx, PCy, PCz, B)]
            term2 == RMul[Vec8d(t - 1), CoulombR(t - 2, u, v, N + 1, PCx, PCy, PCz, B)]
        IN  RAdd[term1, term2]
    ELSE IF t = 0 /\ u > 0 /\ v >= 0 /\ N >= 0 THEN
        LET term1 == RMul[PCy, CoulombR(0, u - 1, v, N + 1, PCx, PCy, PCz, B)]
            term2 == RMul[Vec8d(u - 1), CoulombR(0, u - 2, v, N + 1, PCx, PCy, PCz, B)]
        IN  RAdd[term1, term2]
    ELSE IF t = 0 /\ u = 0 /\ v > 0 /\ N >= 0 THEN
        LET term1 == RMul[PCz, CoulombR(0, 0, v - 1, N + 1, PCx, PCy, PCz, B)]
            term2 == RMul[Vec8d(v - 1), CoulombR(0, 0, v - 2, N + 1, PCx, PCy, PCz, B)]
        IN  RAdd[term1, term2]
    ELSE
        InvalidCase

\* ------------------------------------------------------------------------
\* Closed forms CoulombRSymbolic<L> (coulomb_r_symbolic_L0.hpp .. _L4.hpp)
\* ------------------------------------------------------------------------
\* largest L_total with a generated closed form
MAX_SYMBOLIC_L == 4

\* CoulombRSymbolic<L>::compute: the closed forms it writes to R[0..N_VALUES-1]
CoulombRSymbolic(L, PCx, PCy, PCz, B) ==
    CASE L = 0 ->
        LET W == <<
            B[0]
            >>
        IN  [i \in 0..0 |-> W[i + 1]]
      [] L = 1 ->
        LET W == <<
            B[0],
            RMul[B[1], PCx],
            RMul[B[1], PCy],
            RMul[B[1], PCz]
            >>
        IN  [i \in 0..3 |-> W[i + 1]]
      [] L = 2 ->
        LET W == <<
            B[0],
            RMul[B[1], PCx],
            RMul[B[1], PCy],
            RMul[B[1], PCz],
            RAdd[B[1], RMul[RMul[B[2], PCx], PCx]],
            RMul[RMul[B[2], PCx], PCy],
            RMul[RMul[B[2], PCx], PCz],
            RAdd[B[1], RMul[RMul[B[2], PCy], PCy]],
            RMul[RMul[B[2], PCy], PCz],
            RAdd[B[1], RMul[RMul[B[2], PCz], PCz]]
            >>
        IN  [i \in 0..9 |-> W[i + 1]]
      [] L = 3 ->
        LET W == <<
            B[0],
            RMul[B[1], PCx],
            RMul[B[1], PCy],
            RMul[B[1], PCz],
            RAdd[B[1], RMul[RMul[B[2], PCx], PCx]],
            RMul[RMul[B[2], PCx], PCy],
            RMul[RMul[B[2], PCx], PCz],
            RAdd[B[1], RMul[RMul[B[2], PCy], PCy]],
            RMul[RMul[B[2], PCy], PCz],
            RAdd[B[1], RMul[RMul[B[2], PCz], PCz]],
            RMul[PCx, RAdd[RMul[Vec8d(3), B[2]], RMul[RMul[B[3], PCx], PCx]]],
            RMul[PCy, RAdd[B[2], RMul[RMul[B[3], PCx], PCx]]],
            RMul[PCz, RAdd[B[2], RMul[RMul[B[3], PCx], PCx]]],
            RMul[PCx, RAdd[B[2], RMul[RMul[B[3], PCy], PCy]]],
            RMul[RMul[RMul[B[3], PCx], PCy], PCz],
            RMul[PCx, RAdd[B[2], RMul[RMul[B[3], PCz], PCz]]],
            RMul[PCy, RAdd[RMul[Vec8d(3), B[2]], RMul[RMul[B[3], PCy], PCy]]],
            RMul[PCz, RAdd[B[2], RMul[RMul[B[3], PCy], PCy]]],
            RMul[PCy, RAdd[B[2], RMul[RMul[B[3], PCz], PCz]]],
            RMul[PCz, RAdd[RMul[Vec8d(3), B[2]], RMul[RMul[B[3], PCz], PCz]]]
            >>
        IN  [i \in 0..19 |-> W[i + 1]]
      [] L = 4 ->
        LET W == <<
            B[0],
            RMul[B[1], PCx],
            RMul[B[1], PCy],
            RMul[B[1], PCz],
            RAdd[B[1], RMul[RMul[B[2], PCx], PCx]],
            RMul[RMul[B[2], PCx], PCy],
            RMul[RMul[B[2], PCx], PCz],
            RAdd[B[1], RMul[RMul[B[2], PCy], PCy]],
            RMul[RMul[B[2], PCy], PCz],
            RAdd[B[1], RMul[RMul[B[2], PCz], PCz]],
            RMul[PCx, RAdd[RMul[Vec8d(3), B[2]], RMul[RMul[B[3], PCx], PCx]]],
            RMul[PCy, RAdd[B[2], RMul[RMul[B[3], PCx], PCx]]],
            RMul[PCz, RAdd[B[2], RMul[RMul[B[3], PCx], PCx]]],
            RMul[PCx, RAdd[B[2], RMul[RMul[B[3], PCy], PCy]]],
            RMul[RMul[RMul[B[3], PCx], PCy], PCz],
            RMul[PCx, RAdd[B[2], RMul[RMul[B[3], PCz], PCz]]],
            RMul[PCy, RAdd[RMul[Vec8d(3), B[2]], RMul[RMul[B[3], PCy], PCy]]],
            RMul[PCz, RAdd[B[2], RMul[RMul[B[3], PCy], PCy]]],
            RMul[PCy, RAdd[B[2], RMul[RMul[B[3], PCz], PCz]]],
            RMul[PCz, RAdd[RMul[Vec8d(3), B[2]], RMul[RMul[B[3], PCz], PCz]]],
            RAdd[RAdd[RMul[Vec8d(3), B[2]], RMul[RMul[RMul[Vec8d(6), B[3]], PCx], PCx]], RMul[RMul[RMul[RMul[B[4], PCx], PCx], PCx], PCx]],
            RMul[RMul[PCx, PCy], RAdd[RMul[Vec8d(3), B[3]], RMul[RMul[B[4], PCx], PCx]]],
            RMul[RMul[PCx, PCz], RAdd[RMul[Vec8d(3), B[3]], RMul[RMul[B[4], PCx], PCx]]],
            RAdd[RAdd[RAdd[B[2], RMul[RMul[B[3], PCx], PCx]], RMul[RMul[B[3], PCy], PCy]], RMul[RMul[RMul[RMul[B[4], PCx], PCx], PCy], PCy]],
            RMul[RMul[PCy, PCz], RAdd[B[3], RMul[RMul[B[4], PCx], PCx]]],
            RAdd[RAdd[RAdd[B[2], RMul[RMul[B[3], PCx], PCx]], RMul[RMul[B[3], PCz], PCz]], RMul[RMul[RMul[RMul[B[4], PCx], PCx], PCz], PCz]],
            RMul[RMul[PCx, PCy], RAdd[RMul[Vec8d(3), B[3]], RMul[RMul[B[4], PCy], PCy]]],
            RMul[RMul[PCx, PCz], RAdd[B[3], RMul[RMul[B[4], PCy], PCy]]],
            RMul[RMul[PCx, PCy], RAdd[B[3], RMul[RMul[B[4], PCz], PCz]]],
            RMul[RMul[PCx, PCz], RAdd[RMul[Vec8d(3), B[3]], RMul[RMul[B[4], PCz], PCz]]],
            RAdd[RAdd[RMul[Vec8d(3), B[2]], RMul[RMul[RMul[Vec8d(6), B[3]], PCy], PCy]], RMul[RMul[RMul[RMul[B[4], PCy], PCy], PCy], PCy]],
            RMul[RMul[PCy, PCz], RAdd[RMul[Vec8d(3), B[3]], RMul[RMul[B[4], PCy], PCy]]],
            RAdd[RAdd[RAdd[B[2], RMul[RMul[B[3], PCy], PCy]], RMul[RMul[B[3], PCz], PCz]], RMul[RMul[RMul[RMul[B[4], PCy], PCy], PCz], PCz]],
            RMul[RMul[PCy, PCz], RAdd[RMul[Vec8d(3), B[3]], RMul[RMul[B[4], PCz], PCz]]],
            RAdd[RAdd[RMul[Vec8d(3), B[2]], RMul[RMul[RMul[Vec8d(6), B[3]], PCz], PCz]], RMul[RMul[RMul[RMul[B[4], PCz], PCz], PCz], PCz]]
            >>
        IN  [i \in 0..34 |-> W[i + 1]]

\* ------------------------------------------------------------------------
\* State
\* ------------------------------------------------------------------------
VARIABLES
    \* CoulombRLayer<L_total>::compute (coulomb_r_layered.hpp)
    pc,          \* position in compute
    L_total,     \* template argument
    geom,        \* PCx, PCy, PCz of the call
    Boys,        \* the caller's table
    curr, prev,  \* the two shell buffers
    N,           \* auxiliary order of the shell being built
    L_max_at_N,  \* L_total - N
    t, u, v,     \* loop counters
    R,           \* the returned array
    \* bookkeeping of the last step (not program state)
    prevReads,   \* offsets of prev read
    currReads,   \* offsets of curr read
    currWrites,  \* offsets of curr written
    boysReads,   \* indices of Boys read
    idxArgs,     \* arguments r_index was called with
    currInfo,    \* what curr holds: order of its shell, offsets assigned, stale offsets
    prevInfo,    \* the same for prev
    \* bookkeeping of the whole call (not program state)
    rEvals       \* number of sub-recurrence evaluations (term1 + term2)

varsR == <<pc, L_total, geom, Boys, curr, prev, N, L_max_at_N, t, u, v, R,
           prevReads, currReads, currWrites, boysReads, idxArgs, currInfo, prevInfo,
           rEvals>>

VARIABLES
    \* HermiteELayer<nA,nB>::compute (hermite_e_layered.hpp)
    epc,         \* position in compute
    nA, nB,      \* template arguments of the outermost call
    egeom,       \* PA, PB, p of the call
    stack,       \* the nested instantiations, innermost last: nA, nB, result,
                 \* prev, inv2p and the loop counter t of each
    E,           \* the array returned to the caller
    \* bookkeeping of the last step (not program state)
    eStep,       \* which statement ran: "t0", "mid", "top", "base" or "none"
    eReads,      \* indices of prev read
    eWrites,     \* indices of result written
    ePrevTop,    \* top valid index of the layer held in prev
    \* bookkeeping of the whole call (not program state)
    eLayers,     \* the layers <<nA, nB>> whose compute was entered, in order
    eDivs,       \* number of evaluations of Vec8d(0.5) / p
    \* HermiteEOpt<nA,nB,t>::compute
    optT,        \* template argument t
    optVal       \* what it returned

varsE == <<epc, nA, nB, egeom, stack, E, eStep, eReads, eWrites, ePrevTop,
           eLayers, eDivs, optT, optVal>>

VARIABLES
    \* HermiteDerivA/B, HermiteDerivPA/PB and the generated gradients
    gpc,         \* position of the caller
    gReq,        \* nA, nB, t and the geometry of the request
    dE_dA, dE_dB,        \* HermiteDerivA, HermiteDerivB
    dE_dPA, dE_dPB,      \* HermiteDerivPA, HermiteDerivPB
    sym_dPA, sym_dPB     \* hermite_dE_dPA_nA_nB_t, hermite_dE_dPB_nA_nB_t

varsG == <<gpc, gReq, dE_dA, dE_dB, dE_dPA, dE_dPB, sym_dPA, sym_dPB>>

VARIABLES
    \* enumeration of the index space of one shell
    xpc,         \* position of the enumeration
    xL,          \* total degree bound
    xt, xu, xv,  \* loop counters
    idx,         \* number of triples enumerated
    offsets,     \* the offsets r_index gave them
    xlast        \* the triple of the last iteration and its offset

varsX == <<xpc, xL, xt, xu, xv, idx, offsets, xlast>>

VARIABLES
    \* direct calls of the template recursions and of the generated closed forms
    bpc,         \* position of the caller
    hReq,        \* nA, nB, t and the geometry of a hermite_e<nA,nB,t> call
    cReq,        \* t, u, v, N, the geometry and the table of a coulomb_r<t,u,v,N> call
    hVal,        \* what hermite_e<nA,nB,t> returned
    hSym,        \* what dispatch_hermite_e_symbolic returned
    cVal,        \* what coulomb_r<t,u,v,N> returned
    dTmp,        \* what TMPDispatcher::compute returned
    dSym         \* what SymbolicDispatcher::compute returned

\* results of the calls made through the dispatch tables
varsD == <<dTmp, dSym>>

VARIABLES
    \* coulomb_r_deriv_PCx<t,u,v,N> (coulomb_aux.hpp)
    pReq,        \* t, u, v, N, the geometry and the table of the call
    pVal,        \* what it returned
    \* bookkeeping of the whole call (not program state)
    pReads       \* indices of Boys read

varsP == <<pReq, pVal, pReads>>

VARIABLES
    \* mcmd_coulomb::CoulombRCoeff<t,u,v,N> (coulomb_r_layered_codegen.hpp)
    kReq,        \* t, u, v, N, the geometry and the table of the call
    kVal         \* what it returned

varsK == <<kReq, kVal>>

varsB == <<bpc, hReq, cReq, hVal, hSym, cVal, varsD, varsP, varsK>>

VARIABLES
    \* BottomUpHermiteE (bench_hermite_e_naive.cpp)
    upc,         \* position in compute
    max_nA_, max_nB_,    \* constructor arguments
    table_,      \* std::vector<Vec8d> of (max_nA+1) * stride_nB_ * stride_t_ entries
    ugeom,       \* PA, PB, p of the call
    ui, uj, ut,  \* loop counters i, j and ti / tj / tij
    uReq,        \* nA, nB, t of the call
    uVal,        \* what compute returned
    \* bookkeeping of the last step (not program state)
    uWrite,      \* <<i, j, t>> of the entry assigned
    uReads       \* table indices read

varsU == <<upc, max_nA_, max_nB_, table_, ugeom, ui, uj, ut, uReq, uVal,
           uWrite, uReads>>

VARIABLES
    \* NaiveHermiteE (bench_hermite_e_naive.cpp)
    mpc,         \* position of the caller and of compute
    naive_max_nA, naive_max_nB,  \* constructor arguments max_nA_, max_nB_
    cache_,      \* std::vector<Vec8d> of memoized values
    computed_,   \* std::vector<bool>, which entries of cache_ are valid
    PA_, PB_, one_over_2p_,      \* the geometry compute stored
    mReq,        \* nA, nB, t of the call
    mVal,        \* what compute returned
    mCalls,      \* number of compute calls on this object
    \* bookkeeping of the whole call (not program state)
    mgeom,       \* PA, PB, p the call was given
    mHits        \* cache indices whose memoized value was returned

varsM == <<mpc, naive_max_nA, naive_max_nB, cache_, computed_, PA_, PB_,
           one_over_2p_, mReq, mVal, mCalls, mgeom, mHits>>

VARIABLES
    \* the calling program
    calls        \* number of evaluator calls it has completed and left behind

vars == <<varsR, varsE, varsG, varsX, varsB, varsU, varsM, calls>>

\* no evaluator call is in progress
Ready ==
    /\ pc = "idle" /\ epc = "idle" /\ gpc = "idle" /\ xpc = "idle" /\ bpc = "idle"
    /\ upc = "idle" /\ mpc = "idle"

\* no evaluator call is in progress and none has been made
Idle == Ready /\ calls = 0

NoInfo == [order |-> -1, def |-> {}, stale |-> {}]

InitR ==
    /\ pc = "idle"
    /\ L_total = 0
    /\ geom = UnitGeom
    /\ Boys = BoysOnes(0)
    /\ curr = ZeroR
    /\ prev = ZeroR
    /\ N = 0
    /\ L_max_at_N = 0
    /\ t = 0 /\ u = 0 /\ v = 0
    /\ R = ZeroR
    /\ prevReads = {} /\ currReads = {} /\ currWrites = {}
    /\ boysReads = {} /\ idxArgs = {}
    /\ currInfo = NoInfo
    /\ prevInfo = NoInfo
    /\ rEvals = 0

\* ------------------------------------------------------------------------
\* CoulombRLayer<L_total>::compute, one action per statement or loop iteration
\* ------------------------------------------------------------------------
\* geometries a call with this L_total may use
GeomsFor(L) == IF L <= MaxLTotal THEN GeomSet ELSE {UnitGeom}
TablesFor(L) == IF L <= MaxLTotal THEN BoysTables(L) ELSE {BoysCycle(L)}

\* number of R values of the shell: static constexpr int N_VALUES
N_VALUES(L) == tetrahedral(L)

\* geometries of the calls that follow an earlier call
RepeatGeoms == {Geoms[1], UnitGeom}

\* a caller instantiates CoulombRLayer<L>::compute(PCx, PCy, PCz, Boys);
\* static_assert(L_total >= 0 && L_total <= MAX_R_L)
RCall ==
    /\ Ready
    /\ \E L \in 0..(IF calls = 0 THEN MAX_R_L ELSE MaxRepeatL) :
         \E g \in (IF calls = 0 THEN GeomsFor(L) ELSE RepeatGeoms) :
           \E B \in (IF calls = 0 THEN TablesFor(L) ELSE {BoysCycle(L)}) :
             /\ L_total' = L
             /\ geom' = g
             /\ Boys' = B
    /\ pc' = "entry"
    /\ rEvals' = 0
    /\ UNCHANGED <<curr, prev, N, L_max_at_N, t, u, v, R, prevReads, currReads,
                   currWrites, boysReads, idxArgs, currInfo, prevInfo>>
    /\ UNCHANGED <<varsE, varsG, varsX, varsB, varsU, varsM, calls>>

\* specialization CoulombRLayer<0>: result{}; result[0] = Boys[0]; return result
RCompute0 ==
    /\ pc = "entry"
    /\ L_total = 0
    /\ \E junk \in (IF 0 \in DOMAIN Boys THEN {Zero} ELSE Junk) :
         R' = Put(ZeroR, 0, BoysAt(Boys, 0, junk))
    /\ boysReads' = {0}
    /\ pc' = "done"
    /\ UNCHANGED <<L_total, geom, Boys, rEvals, curr, prev, N, L_max_at_N, t, u, v,
                   prevReads, currReads, currWrites, idxArgs, currInfo, prevInfo>>
    /\ UNCHANGED <<varsE, varsG, varsX, varsB, varsU, varsM, calls>>

\* slip: prev[0] = Boys[L_total + 1]
SeedIndex_mut(L) == L + 1

\* the index of the table entry that seeds the sweep: prev[0] = Boys[L_total]
SeedIndex(L) == L

\* curr{}, prev{}; prev[0] = Boys[L_total]; N = L_total - 1
RInit ==
    /\ pc = "entry"
    /\ L_total > 0
    /\ curr' = ZeroR
    /\ \E junk \in (IF SeedIndex(L_total) \in DOMAIN Boys THEN {Zero} ELSE Junk) :
         prev' = Put(ZeroR, 0, BoysAt(Boys, SeedIndex(L_total), junk))
    /\ boysReads' = {SeedIndex(L_total)}
    /\ prevInfo' = [order |-> L_total, def |-> {0}, stale |-> {}]
    /\ currInfo' = NoInfo
    /\ N' = L_total - 1
    /\ pc' = "head"
    /\ UNCHANGED <<L_total, geom, Boys, rEvals, L_max_at_N, t, u, v, R, prevReads,
                   currReads, currWrites, idxArgs>>
    /\ UNCHANGED <<varsE, varsG, varsX, varsB, varsU, varsM, calls>>

\* slip: L_max_at_N = L_total - N + 1
ShellDegree_mut(L, n) == L - n + 1

\* the degree of the shell built at order n: int L_max_at_N = L_total - N
ShellDegree(L, n) == L - n

\* number of entries the clear loop zeroes: i < tetrahedral(L_max_at_N)
ClearCount(Lm) == tetrahedral(Lm)

\* slip: curr[0] = Boys[N + 1]
BaseIndex_mut(n) == n + 1

\* the index of the table entry of the base case at order n: curr[0] = Boys[N]
BaseIndex(n) == n

\* loop test N >= 0 holds: L_max_at_N, the clear loop and the base case
RHead ==
    /\ pc = "head"
    /\ N >= 0
    /\ LET Lm == ShellDegree(L_total, N)
           cleared == 0..(ClearCount(Lm) - 1)
       IN  /\ L_max_at_N' = Lm
           /\ \E junk \in (IF BaseIndex(N) \in DOMAIN Boys THEN {Zero} ELSE Junk) :
                curr' = Put([i \in DOMAIN curr |-> IF i \in cleared THEN Zero ELSE curr[i]],
                            0, BoysAt(Boys, BaseIndex(N), junk))
           /\ currWrites' = cleared \cup {0}
           /\ currInfo' = [order |-> N, def |-> {0},
                           stale |-> (currInfo.def \cup currInfo.stale) \ (cleared \cup {0})]
    /\ boysReads' = {BaseIndex(N)}
    /\ prevReads' = {} /\ currReads' = {} /\ idxArgs' = {}
    /\ v' = 1
    /\ pc' = "z"
    /\ UNCHANGED <<L_total, geom, Boys, rEvals, prev, N, t, u, R, prevInfo>>
    /\ UNCHANGED <<varsE, varsG, varsX, varsB, varsU, varsM, calls>>

\* slip: the factor Vec8d(k) instead of Vec8d(k - 1)
Coef_mut(k) == Vec8d(k)

\* the factor of the second term of every sub-recurrence: Vec8d(k - 1)
Coef(k) == Vec8d(k - 1)

\* one evaluation of a sub-recurrence for the index triple w, whose decremented
\* index is k: term1 = PC * prev[r_index(w1)], term2 = (k > 1) ? Vec8d(k - 1) *
\* prev[r_index(w2)] : Vec8d(0.0); curr[r_index(w)] = term1 + term2
Recur(PC, k, w, w1, w2) ==
    LET o1 == r_index(w1[1], w1[2], w1[3])
        o2 == r_index(w2[1], w2[2], w2[3])
        o  == r_index(w[1], w[2], w[3])
        rd == IF k > 1 THEN {o1, o2} ELSE {o1}
    IN  /\ \E junk \in (IF rd \subseteq DOMAIN prev THEN {Zero} ELSE Junk) :
             LET term1 == RMul[PC, At(prev, o1, junk)]
                 term2 == IF k > 1 THEN RMul[Coef(k), At(prev, o2, junk)] ELSE Zero
             IN  curr' = Put(curr, o, RAdd[term1, term2])
        /\ prevReads' = rd
        /\ currReads' = {}
        /\ currWrites' = {o}
        /\ boysReads' = {}
        /\ idxArgs' = IF k > 1 THEN {w, w1, w2} ELSE {w, w1}
        /\ currInfo' = [currInfo EXCEPT !.def = @ \cup {o}, !.stale = @ \ {o}]
        /\ rEvals' = rEvals + 1

\* Z-recurrence, one iteration of for (v = 1; v <= L_max_at_N; ++v)
RZ ==
    /\ pc = "z"
    /\ Recur(geom.PCz, v, <<0, 0, v>>, <<0, 0, v - 1>>, <<0, 0, v - 2>>)
    /\ IF v + 1 <= L_max_at_N
         THEN /\ v' = v + 1
              /\ pc' = "z"
              /\ u' = u
         ELSE /\ u' = 1
              /\ v' = 0
              /\ pc' = "y"
    /\ UNCHANGED <<L_total, geom, Boys, prev, N, L_max_at_N, t, R, prevInfo>>
    /\ UNCHANGED <<varsE, varsG, varsX, varsB, varsU, varsM, calls>>

\* slip: the y-recurrence assigns curr[r_index(u, 0, v)]
YTarget_mut(uu, vv) == <<uu, 0, vv>>

\* the entry a y-recurrence assigns: curr[r_index(0, u, v)]
YTarget(uu, vv) == <<0, uu, vv>>

\* Y-recurrence, one iteration of the (u, v) loop nest
RY ==
    /\ pc = "y"
    /\ Recur(geom.PCy, u, YTarget(u, v), <<0, u - 1, v>>, <<0, u - 2, v>>)
    /\ IF v + 1 <= L_max_at_N - u
         THEN /\ v' = v + 1
              /\ u' = u
              /\ t' = t
              /\ pc' = "y"
         ELSE IF u + 1 <= L_max_at_N
           THEN /\ u' = u + 1
                /\ v' = 0
                /\ t' = t
                /\ pc' = "y"
           ELSE /\ t' = 1
                /\ u' = 0
                /\ v' = 0
                /\ pc' = "x"
    /\ UNCHANGED <<L_total, geom, Boys, prev, N, L_max_at_N, R, prevInfo>>
    /\ UNCHANGED <<varsE, varsG, varsX, varsB, varsU, varsM, calls>>

\* slip: the inner loop runs to v <= L_max_at_N - t
XLimitV_mut(Lm, tt, uu) == Lm - tt

\* the bound of the innermost loop of the x-recurrences: v <= L_max_at_N - t - u
XLimitV(Lm, tt, uu) == Lm - tt - uu

\* slip: the x-recurrence multiplies by PCy
XFactor_mut(g) == g.PCy

\* the factor of the first term of the x-recurrence: term1 = PCx * prev[...]
XFactor(g) == g.PCx

\* X-recurrence, one iteration of the (t, u, v) loop nest
RX ==
    /\ pc = "x"
    /\ Recur(XFactor(geom), t, <<t, u, v>>, <<t - 1, u, v>>, <<t - 2, u, v>>)
    /\ IF v + 1 <= XLimitV(L_max_at_N, t, u)
         THEN /\ v' = v + 1
              /\ u' = u
              /\ t' = t
              /\ pc' = "x"
         ELSE IF u + 1 <= L_max_at_N - t
           THEN /\ u' = u + 1
                /\ v' = 0
                /\ t' = t
                /\ pc' = "x"
           ELSE IF t + 1 <= L_max_at_N
             THEN /\ t' = t + 1
                  /\ u' = 0
                  /\ v' = 0
                  /\ pc' = "x"
             ELSE /\ pc' = "swap"
                  /\ UNCHANGED <<t, u, v>>
    /\ UNCHANGED <<L_total, geom, Boys, prev, N, L_max_at_N, R, prevInfo>>
    /\ UNCHANGED <<varsE, varsG, varsX, varsB, varsU, varsM, calls>>

\* std::swap(curr, prev); --N
RSwap ==
    /\ pc = "swap"
    /\ curr' = prev
    /\ prev' = curr
    /\ currInfo' = prevInfo
    /\ prevInfo' = currInfo
    /\ N' = N - 1
    /\ prevReads' = {} /\ currReads' = {} /\ currWrites' = {}
    /\ boysReads' = {} /\ idxArgs' = {}
    /\ pc' = "head"
    /\ UNCHANGED <<L_total, geom, Boys, rEvals, L_max_at_N, t, u, v, R>>
    /\ UNCHANGED <<varsE, varsG, varsX, varsB, varsU, varsM, calls>>

\* slip: return curr
ReturnedBuffer_mut(c, p) == c

\* the buffer the sweep hands back after the last swap: return prev
ReturnedBuffer(c, p) == p

\* loop test N >= 0 fails: return prev
RReturn ==
    /\ pc = "head"
    /\ N < 0
    /\ R' = ReturnedBuffer(curr, prev)
    /\ pc' = "done"
    /\ UNCHANGED <<L_total, geom, Boys, rEvals, curr, prev, N, L_max_at_N, t, u, v,
                   prevReads, currReads, currWrites, boysReads, idxArgs,
                   currInfo, prevInfo>>
    /\ UNCHANGED <<varsE, varsG, varsX, varsB, varsU, varsM, calls>>

\* the caller has the returned array and goes on to its next evaluator call;
\* the memory of the finished call keeps what the call left in it
RResume ==
    /\ pc = "done"
    /\ calls + 1 < MaxCalls
    /\ L_total <= MaxRepeatL
    /\ geom = Geoms[1]
    /\ Boys = BoysCycle(L_total)
    /\ pc' = "idle"
    /\ calls' = calls + 1
    /\ UNCHANGED <<L_total, geom, Boys, rEvals, curr, prev, N, L_max_at_N, t, u, v,
                   R, prevReads, currReads, currWrites, boysReads, idxArgs,
                   currInfo, prevInfo>>
    /\ UNCHANGED <<varsE, varsG, varsX, varsB, varsU, varsM>>

\* ------------------------------------------------------------------------
\* Brute-force recursion HermiteE<nA,nB,t>::compute (hermite_e.hpp)
\* ------------------------------------------------------------------------
\* slip: the general case multiplies by 1/p
MixedInv2p_mut(p) == RDiv[Vec8d(1), p]

\* the factor of E_{t-1} in the general case (nA > 0, nB > 0, t > 0):
\* Vec8d(0.5) / p
MixedInv2p(p) == RDiv[Half, p]

RECURSIVE HermiteE(_, _, _, _, _, _)
HermiteE(a, b, tt, PA, PB, p) ==
    CASE a = 0 /\ b = 0 /\ tt = 0 ->
        Vec8d(1)
      [] a > 0 /\ b = 0 /\ tt = 0 ->
        RAdd[RMul[PA, HermiteE(a - 1, 0, tt, PA, PB, p)],
             RMul[Vec8d(tt + 1), HermiteE(a - 1, 0, tt + 1, PA, PB, p)]]
      [] a > 0 /\ b = 0 /\ tt > 0 /\ tt <= a ->
        RAdd[RAdd[RMul[RDiv[Half, p], HermiteE(a - 1, 0, tt - 1, PA, PB, p)],
                  RMul[PA, HermiteE(a - 1, 0, tt, PA, PB, p)]],
             RMul[Vec8d(tt + 1), HermiteE(a - 1, 0, tt + 1, PA, PB, p)]]
      [] a = 0 /\ b > 0 /\ tt = 0 ->
        RAdd[RMul[PB, HermiteE(0, b - 1, tt, PA, PB, p)],
             RMul[Vec8d(tt + 1), HermiteE(0, b - 1, tt + 1, PA, PB, p)]]
      [] a = 0 /\ b > 0 /\ tt > 0 /\ tt <= b ->
        RAdd[RAdd[RMul[RDiv[Half, p], HermiteE(0, b - 1, tt - 1, PA, PB, p)],
                  RMul[PB, HermiteE(0, b - 1, tt, PA, PB, p)]],
             RMul[Vec8d(tt + 1), HermiteE(0, b - 1, tt + 1, PA, PB, p)]]
      [] a > 0 /\ b > 0 /\ tt = 0 ->
        RAdd[RMul[PA, HermiteE(a - 1, b, tt, PA, PB, p)],
             RMul[Vec8d(tt + 1), HermiteE(a - 1, b, tt + 1, PA, PB, p)]]
      [] a > 0 /\ b > 0 /\ tt > 0 /\ tt <= a + b ->
        RAdd[RAdd[RMul[MixedInv2p(p), HermiteE(a - 1, b, tt - 1, PA, PB, p)],
                  RMul[PA, HermiteE(a - 1, b, tt, PA, PB, p)]],
             RMul[Vec8d(tt + 1), HermiteE(a - 1, b, tt + 1, PA, PB, p)]]
      [] OTHER ->
        InvalidCase

\* ------------------------------------------------------------------------
\* HermiteELayer<nA,nB>::compute (hermite_e_layered.hpp), one action per
\* statement or loop iteration; the nested instantiations form a stack
\* ------------------------------------------------------------------------
MAX_L == 4
MAX_T == 2 * MAX_L + 1

\* slip: the array is not value-initialised and holds what the stack held
ZeroE_mut == [i \in 0..(MAX_T - 1) |-> One]

\* std::array<Vec8d, MAX_T> x{}
ZeroE == [i \in 0..(MAX_T - 1) |-> Zero]

InitE ==
    /\ epc = "idle"
    /\ nA = 0 /\ nB = 0
    /\ egeom = UnitGeom
    /\ stack = <<>>
    /\ E = ZeroE
    /\ eStep = "none"
    /\ eReads = {} /\ eWrites = {}
    /\ ePrevTop = -1
    /\ eLayers = <<>>
    /\ eDivs = 0
    /\ optT = 0
    /\ optVal = Zero

\* number of valid t values of layer (a, b): static constexpr int N = nA + nB + 1
NValid(a, b) == a + b + 1

\* slip: result is declared without {} and starts with what the array
\* returned last left in that memory
NewFrame_mut(a, b) ==
    [nA |-> a, nB |-> b, result |-> E, prev |-> ZeroE, inv2p |-> Zero, t |-> 0]

\* an instantiation that has run "result{}" and nothing else
NewFrame(a, b) ==
    [nA |-> a, nB |-> b, result |-> ZeroE, prev |-> ZeroE, inv2p |-> Zero, t |-> 0]

Top == stack[Len(stack)]

SetTop(f) == [stack EXCEPT ![Len(stack)] = f]

\* largest nA + nB of a layer request: one above the last index of the array
MaxLayerSum == 9

\* a caller instantiates HermiteELayer<a,b>::compute(PA, PB, p); the template
\* takes any a, b >= 0 (nothing bounds them by MAX_L)
ECall ==
    /\ Ready
    /\ \E a \in 0..(IF calls = 0 THEN MaxLayerSum ELSE MaxRepeatL),
          g \in (IF calls = 0 THEN GeomSet ELSE RepeatGeoms) :
       \E b \in 0..((IF calls = 0 THEN MaxLayerSum ELSE MaxRepeatL) - a) :
         /\ nA' = a
         /\ nB' = b
         /\ egeom' = g
         /\ stack' = <<NewFrame(a, b)>>
         /\ eLayers' = <<<<a, b>>>>
    /\ eDivs' = 0
    /\ epc' = "enter"
    /\ UNCHANGED <<E, eStep, eReads, eWrites, ePrevTop>>
    /\ UNCHANGED <<optT, optVal>>
    /\ UNCHANGED <<varsR, varsG, varsX, varsB, varsU, varsM, calls>>

\* slip: the previous layer is taken as HermiteELayer<nA - 1, nB + 1>
LowerA_mut(a, b) == <<a - 1, b + 1>>

\* the layer the primary template builds on: HermiteELayer<nA - 1, nB>
LowerA(a, b) == <<a - 1, b>>

\* the layer the specialization for nA = 0 builds on: HermiteELayer<0, nB - 1>
LowerB(b) == <<0, b - 1>>

\* primary template: auto prev = HermiteELayer<nA - 1, nB>::compute(PA, PB, p)
EDescendA ==
    /\ epc = "enter"
    /\ Top.nA > 0
    /\ LET l == LowerA(Top.nA, Top.nB)
       IN  /\ stack' = Append(stack, NewFrame(l[1], l[2]))
           /\ eLayers' = Append(eLayers, l)
    /\ UNCHANGED <<epc, nA, nB, egeom, E, eStep, eReads, eWrites, ePrevTop, eDivs>>
    /\ UNCHANGED <<optT, optVal>>
    /\ UNCHANGED <<varsR, varsG, varsX, varsB, varsU, varsM, calls>>

\* HermiteELayer<0, nB>: auto prev = HermiteELayer<0, nB - 1>::compute(PA, PB, p)
EDescendB ==
    /\ epc = "enter"
    /\ Top.nA = 0
    /\ Top.nB > 0
    /\ LET l == LowerB(Top.nB)
       IN  /\ stack' = Append(stack, NewFrame(l[1], l[2]))
           /\ eLayers' = Append(eLayers, l)
    /\ UNCHANGED <<epc, nA, nB, egeom, E, eStep, eReads, eWrites, ePrevTop, eDivs>>
    /\ UNCHANGED <<optT, optVal>>
    /\ UNCHANGED <<varsR, varsG, varsX, varsB, varsU, varsM, calls>>

\* slip: the base value is stored at index 1
BaseLayer_mut(result) == Put(result, 1, Vec8d(1))

\* the assignment of the base layer: result[0] = Vec8d(1.0)
BaseLayer(result) == Put(result, 0, Vec8d(1))

\* HermiteELayer<0, 0>: result[0] = Vec8d(1.0)
EBase ==
    /\ epc = "enter"
    /\ Top.nA = 0
    /\ Top.nB = 0
    /\ stack' = SetTop([Top EXCEPT !.result = BaseLayer(@)])
    /\ eStep' = "base"
    /\ eReads' = {}
    /\ eWrites' = {0}
    /\ epc' = "ret"
    /\ UNCHANGED <<nA, nB, egeom, E, ePrevTop, eLayers, eDivs>>
    /\ UNCHANGED <<optT, optVal>>
    /\ UNCHANGED <<varsR, varsG, varsX, varsB, varsU, varsM, calls>>

\* return result: to the instantiation that called, or to the caller
EReturn ==
    /\ epc = "ret"
    /\ LET f == Top
           rest == SubSeq(stack, 1, Len(stack) - 1)
       IN  IF rest = <<>>
             THEN /\ E' = f.result
                  /\ stack' = rest
                  /\ epc' = "done"
                  /\ UNCHANGED ePrevTop
             ELSE /\ stack' = [rest EXCEPT ![Len(rest)].prev = f.result]
                  /\ ePrevTop' = f.nA + f.nB
                  /\ epc' = "t0"
                  /\ UNCHANGED E
    /\ eStep' = "none"
    /\ eReads' = {}
    /\ eWrites' = {}
    /\ UNCHANGED <<nA, nB, egeom, eLayers, eDivs>>
    /\ UNCHANGED <<optT, optVal>>
    /\ UNCHANGED <<varsR, varsG, varsX, varsB, varsU, varsM, calls>>

\* HermiteEOpt<nA, nB, t>::compute: static_assert(t >= 0 && t <= nA + nB);
\* auto layer = HermiteELayer<nA, nB>::compute(PA, PB, p); return layer[t]
EOpt ==
    /\ epc = "done"
    /\ calls = 0
    /\ \E tt \in 0..(nA + nB) :
         /\ optT' = tt
         /\ \E junk \in (IF tt \in DOMAIN E THEN {Zero} ELSE Junk) :
              optVal' = At(E, tt, junk)
         /\ eReads' = {tt}
    /\ eStep' = "opt"
    /\ eWrites' = {}
    /\ epc' = "opt"
    /\ UNCHANGED <<nA, nB, egeom, stack, E, ePrevTop, eLayers, eDivs>>
    /\ UNCHANGED <<varsR, varsG, varsX, varsB, varsU, varsM, calls>>

\* the caller has the returned array and goes on to its next evaluator call
EResume ==
    /\ epc = "done"
    /\ calls + 1 < MaxCalls
    /\ nA + nB <= MaxRepeatL
    /\ egeom = Geoms[1]
    /\ epc' = "idle"
    /\ calls' = calls + 1
    /\ UNCHANGED <<nA, nB, egeom, stack, E, eStep, eReads, eWrites, ePrevTop,
                   eLayers, eDivs>>
    /\ UNCHANGED <<optT, optVal>>
    /\ UNCHANGED <<varsR, varsG, varsX, varsB, varsU, varsM>>

\* slip: the factor Vec8d(t) instead of Vec8d(t + 1)
TPlus1_mut(tt) == Vec8d(tt)

\* the factor of the E_{t+1} term: Vec8d(t + 1)
TPlus1(tt) == Vec8d(tt + 1)

\* slip: int t = nA + nB + 1
TopIndex_mut(a, b) == a + b + 1

\* the index of the last entry of layer (a, b): int t = nA + nB
TopIndex(a, b) == a + b

\* the three statements of a layer, for the displacement P of its side:
\*   "t0"  result[0] = P * prev[0] + prev[1]
\*   "mid" result[t] = inv2p * prev[t-1] + P * prev[t] + Vec8d(t + 1) * prev[t + 1]
\*   "top" result[t] = inv2p * prev[t-1] + P * prev[t]
\* f is the frame, tt the index written, nt the loop counter afterwards;
\* the step records what it read and wrote
Layer(kind, f, P, tt, nt) ==
    LET rd == IF kind = "t0" THEN {0, 1}
              ELSE IF kind = "mid" THEN {tt - 1, tt, tt + 1}
              ELSE {tt - 1, tt}
    IN  /\ \E junk \in (IF rd \subseteq DOMAIN f.prev THEN {Zero} ELSE Junk) :
             LET val ==
                   IF kind = "t0" THEN
                       RAdd[RMul[P, At(f.prev, 0, junk)], At(f.prev, 1, junk)]
                   ELSE IF kind = "mid" THEN
                       RAdd[RAdd[RMul[f.inv2p, At(f.prev, tt - 1, junk)],
                                 RMul[P, At(f.prev, tt, junk)]],
                            RMul[TPlus1(tt), At(f.prev, tt + 1, junk)]]
                   ELSE
                       RAdd[RMul[f.inv2p, At(f.prev, tt - 1, junk)],
                            RMul[P, At(f.prev, tt, junk)]]
             IN  stack' = SetTop([f EXCEPT !.result = Put(@, tt, val), !.t = nt])
        /\ eStep' = kind
        /\ eReads' = rd
        /\ eWrites' = {tt}

\* primary template: Vec8d inv2p = Vec8d(0.5) / p; result[0] = PA * prev[0] + prev[1]
EA_T0 ==
    /\ epc = "t0"
    /\ Top.nA > 0
    /\ Layer("t0", [Top EXCEPT !.inv2p = RDiv[Half, egeom.p]], egeom.PA, 0, 1)
    /\ epc' = IF 1 < Top.nA + Top.nB THEN "mid"
              ELSE IF Top.nA + Top.nB > 0 THEN "top" ELSE "ret"
    /\ eDivs' = eDivs + 1
    /\ UNCHANGED <<nA, nB, egeom, E, ePrevTop, eLayers>>
    /\ UNCHANGED <<optT, optVal>>
    /\ UNCHANGED <<varsR, varsG, varsX, varsB, varsU, varsM, calls>>

\* primary template: one iteration of for (t = 1; t < nA + nB; ++t)
EA_Mid ==
    /\ epc = "mid"
    /\ Top.nA > 0
    /\ Layer("mid", Top, egeom.PA, Top.t, Top.t + 1)
    /\ epc' = IF Top.t + 1 < Top.nA + Top.nB THEN "mid"
              ELSE IF Top.nA + Top.nB > 0 THEN "top" ELSE "ret"
    /\ UNCHANGED <<nA, nB, egeom, E, ePrevTop, eLayers, eDivs>>
    /\ UNCHANGED <<optT, optVal>>
    /\ UNCHANGED <<varsR, varsG, varsX, varsB, varsU, varsM, calls>>

\* primary template: if (nA + nB > 0) { int t = nA + nB; result[t] = ... }
EA_Top ==
    /\ epc = "top"
    /\ Top.nA > 0
    /\ Layer("top", Top, egeom.PA, TopIndex(Top.nA, Top.nB), Top.t)
    /\ epc' = "ret"
    /\ UNCHANGED <<nA, nB, egeom, E, ePrevTop, eLayers, eDivs>>
    /\ UNCHANGED <<optT, optVal>>
    /\ UNCHANGED <<varsR, varsG, varsX, varsB, varsU, varsM, calls>>

\* HermiteELayer<0, nB>: Vec8d inv2p = Vec8d(0.5) / p; result[0] = PB * prev[0] + prev[1]
EB_T0 ==
    /\ epc = "t0"
    /\ Top.nA = 0
    /\ Layer("t0", [Top EXCEPT !.inv2p = RDiv[Half, egeom.p]], egeom.PB, 0, 1)
    /\ epc' = IF 1 < Top.nB THEN "mid" ELSE "top"
    /\ eDivs' = eDivs + 1
    /\ UNCHANGED <<nA, nB, egeom, E, ePrevTop, eLayers>>
    /\ UNCHANGED <<optT, optVal>>
    /\ UNCHANGED <<varsR, varsG, varsX, varsB, varsU, varsM, calls>>

\* HermiteELayer<0, nB>: one iteration of for (t = 1; t < nB; ++t)
EB_Mid ==
    /\ epc = "mid"
    /\ Top.nA = 0
    /\ Layer("mid", Top, egeom.PB, Top.t, Top.t + 1)
    /\ epc' = IF Top.t + 1 < Top.nB THEN "mid" ELSE "top"
    /\ UNCHANGED <<nA, nB, egeom, E, ePrevTop, eLayers, eDivs>>
    /\ UNCHANGED <<optT, optVal>>
    /\ UNCHANGED <<varsR, varsG, varsX, varsB, varsU, varsM, calls>>

\* HermiteELayer<0, nB>: result[nB] = inv2p * prev[nB-1] + PB * prev[nB]
EB_Top ==
    /\ epc = "top"
    /\ Top.nA = 0
    /\ Layer("top", Top, egeom.PB, TopIndex(0, Top.nB), Top.t)
    /\ epc' = "ret"
    /\ UNCHANGED <<nA, nB, egeom, E, ePrevTop, eLayers, eDivs>>
    /\ UNCHANGED <<optT, optVal>>
    /\ UNCHANGED <<varsR, varsG, varsX, varsB, varsU, varsM, calls>>

\* ------------------------------------------------------------------------
\* Gradient extension (hermite_grad.hpp) and the generated gradients
\* (hermite_grad_symbolic.hpp)
\* ------------------------------------------------------------------------
BENCH_MAX_L == 4

\* slip: the factor nA - 1 instead of nA
HermiteDerivPA_mut(a, b, tt, PA, PB, p) ==
    IF a = 0 /\ b >= 0 /\ tt >= 0 /\ tt <= b THEN
        Zero
    ELSE IF a > 0 /\ b >= 0 /\ tt >= 0 /\ tt <= a + b THEN
        RMul[Vec8d(a - 1), HermiteE(a - 1, b, tt, PA, PB, p)]
    ELSE
        Zero

HermiteDerivPA(a, b, tt, PA, PB, p) ==
    IF a = 0 /\ b >= 0 /\ tt >= 0 /\ tt <= b THEN
        Zero
    ELSE IF a > 0 /\ b >= 0 /\ tt >= 0 /\ tt <= a + b THEN
        RMul[Vec8d(a), HermiteE(a - 1, b, tt, PA, PB, p)]
    ELSE
        Zero

HermiteDerivPB(a, b, tt, PA, PB, p) ==
    IF a >= 0 /\ b = 0 /\ tt >= 0 /\ tt <= a THEN
        Zero
    ELSE IF a >= 0 /\ b > 0 /\ tt >= 0 /\ tt <= a + b THEN
        RMul[Vec8d(b), HermiteE(a, b - 1, tt, PA, PB, p)]
    ELSE
        Zero

\* slip: dPB_dB = alpha_A / p
dPB_dB_mut(alpha_A, p) == RDiv[alpha_A, p]

\* Vec8d dPB_dB = -alpha_A / p
dPB_dB(alpha_A, p) == RDiv[RNeg[alpha_A], p]

HermiteDerivA(a, b, tt, PA, PB, p, alpha_A, alpha_B) ==
    IF a = 0 /\ b = 0 /\ tt = 0 THEN
        Zero
    ELSE
        LET dPA == HermiteDerivPA(a, b, tt, PA, PB, p)
            dPB == HermiteDerivPB(a, b, tt, PA, PB, p)
            dPA_dA == RDiv[RNeg[alpha_B], p]
            dPB_dA == RDiv[alpha_A, p]
        IN  RAdd[RMul[dPA, dPA_dA], RMul[dPB, dPB_dA]]

HermiteDerivB(a, b, tt, PA, PB, p, alpha_A, alpha_B) ==
    IF a = 0 /\ b = 0 /\ tt = 0 THEN
        Zero
    ELSE
        LET dPA == HermiteDerivPA(a, b, tt, PA, PB, p)
            dPB == HermiteDerivPB(a, b, tt, PA, PB, p)
            dPA_dB == RDiv[alpha_B, p]
        IN  RAdd[RMul[dPA, dPA_dB], RMul[dPB, dPB_dB(alpha_A, p)]]

\* slip: one_over_2p = 1.0 / p
OneOver2p_mut(p) == RDiv[Vec8d(1), p]

\* one_over_2p = 1.0 / (2.0 * p)
OneOver2p(p) == RDiv[Vec8d(1), RMul[Vec8d(2), p]]

\* the generated functions hermite_dE_dPA_nA_nB_t(PA, PB, one_over_2p)
hermite_dE_dPA(a, b, tt, PA, PB, one_over_2p) ==
    CASE a = 0 /\ b = 0 /\ tt = 0 ->
        Vec8d(0)
      [] a = 0 /\ b = 1 /\ tt = 0 ->
        Vec8d(0)
      [] a = 0 /\ b = 1 /\ tt = 1 ->
        Vec8d(0)
      [] a = 0 /\ b = 2 /\ tt = 0 ->
        Vec8d(0)
      [] a = 0 /\ b = 2 /\ tt = 1 ->
        Vec8d(0)
      [] a = 0 /\ b = 2 /\ tt = 2 ->
        Vec8d(0)
      [] a = 0 /\ b = 3 /\ tt = 0 ->
        Vec8d(0)
      [] a = 0 /\ b = 3 /\ tt = 1 ->
        Vec8d(0)
      [] a = 0 /\ b = 3 /\ tt = 2 ->
        Vec8d(0)
      [] a = 0 /\ b = 3 /\ tt = 3 ->
        Vec8d(0)
      [] a = 0 /\ b = 4 /\ tt = 0 ->
        Vec8d(0)
      [] a = 0 /\ b = 4 /\ tt = 1 ->
        Vec8d(0)
      [] a = 0 /\ b = 4 /\ tt = 2 ->
        Vec8d(0)
      [] a = 0 /\ b = 4 /\ tt = 3 ->
        Vec8d(0)
      [] a = 0 /\ b = 4 /\ tt = 4 ->
        Vec8d(0)
      [] a = 1 /\ b = 0 /\ tt = 0 ->
        Vec8d(1)
      [] a = 1 /\ b = 0 /\ tt = 1 ->
        Vec8d(0)
      [] a = 1 /\ b = 1 /\ tt = 0 ->
        PB
      [] a = 1 /\ b = 1 /\ tt = 1 ->
        one_over_2p
      [] a = 1 /\ b = 1 /\ tt = 2 ->
        Vec8d(0)
      [] a = 1 /\ b = 2 /\ tt = 0 ->
        RAdd[RMul[PB, PB], one_over_2p]
      [] a = 1 /\ b = 2 /\ tt = 1 ->
        RMul[RMul[Vec8d(2), PB], one_over_2p]
      [] a = 1 /\ b = 2 /\ tt = 2 ->
        RMul[one_over_2p, one_over_2p]
      [] a = 1 /\ b = 2 /\ tt = 3 ->
        Vec8d(0)
      [] a = 1 /\ b = 3 /\ tt = 0 ->
        RAdd[RMul[RMul[PB, PB], PB], RMul[RMul[Vec8d(3), PB], one_over_2p]]
      [] a = 1 /\ b = 3 /\ tt = 1 ->
        RAdd[RMul[RMul[Vec8d(3), RMul[PB, PB]], one_over_2p], RMul[Vec8d(3), RMul[one_over_2p, one_over_2p]]]
      [] a = 1 /\ b = 3 /\ tt = 2 ->
        RMul[RMul[Vec8d(3), PB], RMul[one_over_2p, one_over_2p]]
      [] a = 1 /\ b = 3 /\ tt = 3 ->
        RMul[RMul[one_over_2p, one_over_2p], one_over_2p]
      [] a = 1 /\ b = 3 /\ tt = 4 ->
        Vec8d(0)
      [] a = 1 /\ b = 4 /\ tt = 0 ->
        RAdd[RAdd[RMul[RMul[PB, PB], RMul[PB, PB]], RMul[RMul[Vec8d(6), RMul[PB, PB]], one_over_2p]], RMul[Vec8d(3), RMul[one_over_2p, one_over_2p]]]
      [] a = 1 /\ b = 4 /\ tt = 1 ->
        RAdd[RMul[RMul[Vec8d(4), RMul[RMul[PB, PB], PB]], one_over_2p], RMul[RMul[Vec8d(12), PB], RMul[one_over_2p, one_over_2p]]]
      [] a = 1 /\ b = 4 /\ tt = 2 ->
        RAdd[RMul[RMul[Vec8d(6), RMul[PB, PB]], RMul[one_over_2p, one_over_2p]], RMul[Vec8d(6), RMul[RMul[one_over_2p, one_over_2p], one_over_2p]]]
      [] a = 1 /\ b = 4 /\ tt = 3 ->
        RMul[RMul[Vec8d(4), PB], RMul[RMul[one_over_2p, one_over_2p], one_over_2p]]
      [] a = 1 /\ b = 4 /\ tt = 4 ->
        RMul[RMul[one_over_2p, one_over_2p], RMul[one_over_2p, one_over_2p]]
      [] a = 1 /\ b = 4 /\ tt = 5 ->
        Vec8d(0)
      [] a = 2 /\ b = 0 /\ tt = 0 ->
        RMul[Vec8d(2), PA]
      [] a = 2 /\ b = 0 /\ tt = 1 ->
        RMul[Vec8d(2), one_over_2p]
      [] a = 2 /\ b = 0 /\ tt = 2 ->
        Vec8d(0)
      [] a = 2 /\ b = 1 /\ tt = 0 ->
        RAdd[RMul[RMul[Vec8d(2), PA], PB], RMul[Vec8d(2), one_over_2p]]
      [] a = 2 /\ b = 1 /\ tt = 1 ->
        RAdd[RMul[RMul[Vec8d(2), PA], one_over_2p], RMul[RMul[Vec8d(2), PB], one_over_2p]]
      [] a = 2 /\ b = 1 /\ tt = 2 ->
        RMul[Vec8d(2), RMul[one_over_2p, one_over_2p]]
      [] a = 2 /\ b = 1 /\ tt = 3 ->
        Vec8d(0)
      [] a = 2 /\ b = 2 /\ tt = 0 ->
        RAdd[RAdd[RMul[RMul[Vec8d(2), PA], RMul[PB, PB]], RMul[RMul[Vec8d(2), PA], one_over_2p]], RMul[RMul[Vec8d(4), PB], one_over_2p]]
      [] a = 2 /\ b = 2 /\ tt = 1 ->
        RAdd[RAdd[RMul[RMul[RMul[Vec8d(4), PA], PB], one_over_2p], RMul[RMul[Vec8d(2), RMul[PB, PB]], one_over_2p]], RMul[Vec8d(6), RMul[one_over_2p, one_over_2p]]]
      [] a = 2 /\ b = 2 /\ tt = 2 ->
        RAdd[RMul[RMul[Vec8d(2), PA], RMul[one_over_2p, one_over_2p]], RMul[RMul[Vec8d(4), PB], RMul[one_over_2p, one_over_2p]]]
      [] a = 2 /\ b = 2 /\ tt = 3 ->
        RMul[Vec8d(2), RMul[RMul[one_over_2p, one_over_2p], one_over_2p]]
      [] a = 2 /\ b = 2 /\ tt = 4 ->
        Vec8d(0)
      [] a = 2 /\ b = 3 /\ tt = 0 ->
        RAdd[RAdd[RAdd[RMul[RMul[Vec8d(2), PA], RMul[RMul[PB, PB], PB]], RMul[RMul[RMul[Vec8d(6), PA], PB], one_over_2p]], RMul[RMul[Vec8d(6), RMul[PB, PB]], one_over_2p]], RMul[Vec8d(6), RMul[one_over_2p, one_over_2p]]]
      [] a = 2 /\ b = 3 /\ tt = 1 ->
        RAdd[RAdd[RAdd[RMul[RMul[RMul[Vec8d(6), PA], RMul[PB, PB]], one_over_2p], RMul[RMul[Vec8d(6), PA], RMul[one_over_2p, one_over_2p]]], RMul[RMul[Vec8d(2), RMul[RMul[PB, PB], PB]], one_over_2p]], RMul[RMul[Vec8d(18), PB], RMul[one_over_2p, one_over_2p]]]
      [] a = 2 /\ b = 3 /\ tt = 2 ->
        RAdd[RAdd[RMul[RMul[RMul[Vec8d(6), PA], PB], RMul[one_over_2p, one_over_2p]], RMul[RMul[Vec8d(6), RMul[PB, PB]], RMul[one_over_2p, one_over_2p]]], RMul[Vec8d(12), RMul[RMul[one_over_2p, one_over_2p], one_over_2p]]]
      [] a = 2 /\ b = 3 /\ tt = 3 ->
        RAdd[RMul[RMul[Vec8d(2), PA], RMul[RMul[one_over_2p, one_over_2p], one_over_2p]], RMul[RMul[Vec8d(6), PB], RMul[RMul[one_over_2p, one_over_2p], one_over_2p]]]
      [] a = 2 /\ b = 3 /\ tt = 4 ->
        RMul[Vec8d(2), RMul[RMul[one_over_2p, one_over_2p], RMul[one_over_2p, one_over_2p]]]
      [] a = 2 /\ b = 3 /\ tt = 5 ->
        Vec8d(0)
      [] a = 2 /\ b = 4 /\ tt = 0 ->
        RAdd[RAdd[RAdd[RAdd[RMul[RMul[Vec8d(2), PA], RMul[RMul[PB, PB], RMul[PB, PB]]], RMul[RMul[RMul[Vec8d(12), PA], RMul[PB, PB]], one_over_2p]], RMul[RMul[Vec8d(6), PA], RMul[one_over_2p, one_over_2p]]], RMul[RMul[Vec8d(8), RMul[RMul[PB, PB], PB]], one_over_2p]], RMul[RMul[Vec8d(24), PB], RMul[one_over_2p, one_over_2p]]]
      [] a = 2 /\ b = 4 /\ tt = 1 ->
        RAdd[RAdd[RAdd[RAdd[RMul[RMul[RMul[Vec8d(8), PA], RMul[RMul[PB, PB], PB]], one_over_2p], RMul[RMul[RMul[Vec8d(24), PA], PB], RMul[one_over_2p, one_over_2p]]], RMul[RMul[Vec8d(2), RMul[RMul[PB, PB], RMul[PB, PB]]], one_over_2p]], RMul[RMul[Vec8d(36), RMul[PB, PB]], RMul[one_over_2p, one_over_2p]]], RMul[Vec8d(30), RMul[RMul[one_over_2p, one_over_2p], one_over_2p]]]
      [] a = 2 /\ b = 4 /\ tt = 2 ->
        RAdd[RAdd[RAdd[RMul[RMul[RMul[Vec8d(12), PA], RMul[PB, PB]], RMul[one_over_2p, one_over_2p]], RMul[RMul[Vec8d(12), PA], RMul[RMul[one_over_2p, one_over_2p], one_over_2p]]], RMul[RMul[Vec8d(8), RMul[RMul[PB, PB], PB]], RMul[one_over_2p, one_over_2p]]], RMul[RMul[Vec8d(48), PB], RMul[RMul[one_over_2p, one_over_2p], one_over_2p]]]
      [] a = 2 /\ b = 4 /\ tt = 3 ->
        RAdd[RAdd[RMul[RMul[RMul[Vec8d(8), PA], PB], RMul[RMul[one_over_2p, one_over_2p], one_over_2p]], RMul[RMul[Vec8d(12), RMul[PB, PB]], RMul[RMul[one_over_2p, one_over_2p], one_over_2p]]], RMul[Vec8d(20), RMul[RMul[one_over_2p, one_over_2p], RMul[one_over_2p, one_over_2p]]]]
      [] a = 2 /\ b = 4 /\ tt = 4 ->
        RAdd[RMul[RMul[Vec8d(2), PA], RMul[RMul[one_over_2p, one_over_2p], RMul[one_over_2p, one_over_2p]]], RMul[RMul[Vec8d(8), PB], RMul[RMul[one_over_2p, one_over_2p], RMul[one_over_2p, one_over_2p]]]]
      [] a = 2 /\ b = 4 /\ tt = 5 ->
        RMul[Vec8d(2), RMul[RMul[RMul[one_over_2p, one_over_2p], RMul[one_over_2p, one_over_2p]], one_over_2p]]
      [] a = 2 /\ b = 4 /\ tt = 6 ->
        Vec8d(0)
      [] a = 3 /\ b = 0 /\ tt = 0 ->
        RAdd[RMul[Vec8d(3), RMul[PA, PA]], RMul[Vec8d(3), one_over_2p]]
      [] a = 3 /\ b = 0 /\ tt = 1 ->
        RMul[RMul[Vec8d(6), PA], one_over_2p]
      [] a = 3 /\ b = 0 /\ tt = 2 ->
        RMul[Vec8d(3), RMul[one_over_2p, one_over_2p]]
      [] a = 3 /\ b = 0 /\ tt = 3 ->
        Vec8d(0)
      [] a = 3 /\ b = 1 /\ tt = 0 ->
        RAdd[RAdd[RMul[RMul[Vec8d(3), RMul[PA, PA]], PB], RMul[RMul[Vec8d(6), PA], one_over_2p]], RMul[RMul[Vec8d(3), PB], one_over_2p]]
      [] a = 3 /\ b = 1 /\ tt = 1 ->
        RAdd[RAdd[RMul[RMul[Vec8d(3), RMul[PA, PA]], one_over_2p], RMul[RMul[RMul[Vec8d(6), PA], PB], one_over_2p]], RMul[Vec8d(9), RMul[one_over_2p, one_over_2p]]]
      [] a = 3 /\ b = 1 /\ tt = 2 ->
        RAdd[RMul[RMul[Vec8d(6), PA], RMul[one_over_2p, one_over_2p]], RMul[RMul[Vec8d(3), PB], RMul[one_over_2p, one_over_2p]]]
      [] a = 3 /\ b = 1 /\ tt = 3 ->
        RMul[Vec8d(3), RMul[RMul[one_over_2p, one_over_2p], one_over_2p]]
      [] a = 3 /\ b = 1 /\ tt = 4 ->
        Vec8d(0)
      [] a = 3 /\ b = 2 /\ tt = 0 ->
        RAdd[RAdd[RAdd[RAdd[RMul[RMul[Vec8d(3), RMul[PA, PA]], RMul[PB, PB]], RMul[RMul[Vec8d(3), RMul[PA, PA]], one_over_2p]], RMul[RMul[RMul[Vec8d(12), PA], PB], one_over_2p]], RMul[RMul[Vec8d(3), RMul[PB, PB]], one_over_2p]], RMul[Vec8d(9), RMul[one_over_2p, one_over_2p]]]
      [] a = 3 /\ b = 2 /\ tt = 1 ->
        RAdd[RAdd[RAdd[RMul[RMul[RMul[Vec8d(6), RMul[PA, PA]], PB], one_over_2p], RMul[RMul[RMul[Vec8d(6), PA], RMul[PB, PB]], one_over_2p]], RMul[RMul[Vec8d(18), PA], RMul[one_over_2p, one_over_2p]]], RMul[RMul[Vec8d(18), PB], RMul[one_over_2p, one_over_2p]]]
      [] a = 3 /\ b = 2 /\ tt = 2 ->
        RAdd[RAdd[RAdd[RMul[RMul[Vec8d(3), RMul[PA, PA]], RMul[one_over_2p, one_over_2p]], RMul[RMul[RMul[Vec8d(12), PA], PB], RMul[one_over_2p, one_over_2p]]], RMul[RMul[Vec8d(3), RMul[PB, PB]], RMul[one_over_2p, one_over_2p]]], RMul[Vec8d(18), RMul[RMul[one_over_2p, one_over_2p], one_over_2p]]]
      [] a = 3 /\ b = 2 /\ tt = 3 ->
        RAdd[RMul[RMul[Vec8d(6), PA], RMul[RMul[one_over_2p, one_over_2p], one_over_2p]], RMul[RMul[Vec8d(6), PB], RMul[RMul[one_over_2p, one_over_2p], one_over_2p]]]
      [] a = 3 /\ b = 2 /\ tt = 4 ->
        RMul[Vec8d(3), RMul[RMul[one_over_2p, one_over_2p], RMul[one_over_2p, one_over_2p]]]
      [] a = 3 /\ b = 2 /\ tt = 5 ->
        Vec8d(0)
      [] a = 3 /\ b = 3 /\ tt = 0 ->
        RAdd[RAdd[RAdd[RAdd[RAdd[RMul[RMul[Vec8d(3), RMul[PA, PA]], RMul[RMul[PB, PB], PB]], RMul[RMul[RMul[Vec8d(9), RMul[PA, PA]], PB], one_over_2p]], RMul[RMul[RMul[Vec8d(18), PA], RMul[PB, PB]], one_over_2p]], RMul[RMul[Vec8d(18), PA], RMul[one_over_2p, one_over_2p]]], RMul[RMul[Vec8d(3), RMul[RMul[PB, PB], PB]], one_over_2p]], RMul[RMul[Vec8d(27), PB], RMul[one_over_2p, one_over_2p]]]
      [] a = 3 /\ b = 3 /\ tt = 1 ->
        RAdd[RAdd[RAdd[RAdd[RAdd[RMul[RMul[RMul[Vec8d(9), RMul[PA, PA]], RMul[PB, PB]], one_over_2p], RMul[RMul[Vec8d(9), RMul[PA, PA]], RMul[one_over_2p, one_over_2p]]], RMul[RMul[RMul[Vec8d(6), PA], RMul[RMul[PB, PB], PB]], one_over_2p]], RMul[RMul[RMul[Vec8d(54), PA], PB], RMul[one_over_2p, one_over_2p]]], RMul[RMul[Vec8d(27), RMul[PB, PB]], RMul[one_over_2p, one_over_2p]]], RMul[Vec8d(45), RMul[RMul[one_over_2p, one_over_2p], one_over_2p]]]
      [] a = 3 /\ b = 3 /\ tt = 2 ->
        RAdd[RAdd[RAdd[RAdd[RMul[RMul[RMul[Vec8d(9), RMul[PA, PA]], PB], RMul[one_over_2p, one_over_2p]], RMul[RMul[RMul[Vec8d(18), PA], RMul[PB, PB]], RMul[one_over_2p, one_over_2p]]], RMul[RMul[Vec8d(36), PA], RMul[RMul[one_over_2p, one_over_2p], one_over_2p]]], RMul[RMul[Vec8d(3), RMul[RMul[PB, PB], PB]], RMul[one_over_2p, one_over_2p]]], RMul[RMul[Vec8d(54), PB], RMul[RMul[one_over_2p, one_over_2p], one_over_2p]]]
      [] a = 3 /\ b = 3 /\ tt = 3 ->
        RAdd[RAdd[RAdd[RMul[RMul[Vec8d(3), RMul[PA, PA]], RMul[RMul[one_over_2p, one_over_2p], one_over_2p]], RMul[RMul[RMul[Vec8d(18), PA], PB], RMul[RMul[one_over_2p, one_over_2p], one_over_2p]]], RMul[RMul[Vec8d(9), RMul[PB, PB]], RMul[RMul[one_over_2p, one_over_2p], one_over_2p]]], RMul[Vec8d(30), RMul[RMul[one_over_2p, one_over_2p], RMul[one_over_2p, one_over_2p]]]]
      [] a = 3 /\ b = 3 /\ tt = 4 ->
        RAdd[RMul[RMul[Vec8d(6), PA], RMul[RMul[one_over_2p, one_over_2p], RMul[one_over_2p, one_over_2p]]], RMul[RMul[Vec8d(9), PB], RMul[RMul[one_over_2p, one_over_2p], RMul[one_over_2p, one_over_2p]]]]
      [] a = 3 /\ b = 3 /\ tt = 5 ->
        RMul[Vec8d(3), RMul[RMul[RMul[one_over_2p, one_over_2p], RMul[one_over_2p, one_over_2p]], one_over_2p]]
      [] a = 3 /\ b = 3 /\ tt = 6 ->
        Vec8d(0)
      [] a = 3 /\ b = 4 /\ tt = 0 ->
        RAdd[RAdd[RAdd[RAdd[RAdd[RAdd[RAdd[RMul[RMul[Vec8d(3), RMul[PA, PA]], RMul[RMul[PB, PB], RMul[PB, PB]]], RMul[RMul[RMul[Vec8d(18), RMul[PA, PA]], RMul[PB, PB]], one_over_2p]], RMul[RMul[Vec8d(9), RMul[PA, PA]], RMul[one_over_2p, one_over_2p]]], RMul[RMul[RMul[Vec8d(24), PA], RMul[RMul[PB, PB], PB]], one_over_2p]], RMul[RMul[RMul[Vec8d(72), PA], PB], RMul[one_over_2p, one_over_2p]]], RMul[RMul[Vec8d(3), RMul[RMul[PB, PB], RMul[PB, PB]]], one_over_2p]], RMul[RMul[Vec8d(54), RMul[PB, PB]], RMul[one_over_2p, one_over_2p]]], RMul[Vec8d(45), RMul[RMul[one_over_2p, one_over_2p], one_over_2p]]]
      [] a = 3 /\ b = 4 /\ tt = 1 ->
        RAdd[RAdd[RAdd[RAdd[RAdd[RAdd[RMul[RMul[RMul[Vec8d(12), RMul[PA, PA]], RMul[RMul[PB, PB], PB]], one_over_2p], RMul[RMul[RMul[Vec8d(36), RMul[PA, PA]], PB], RMul[one_over_2p, one_over_2p]]], RMul[RMul[RMul[Vec8d(6), PA], RMul[RMul[PB, PB], RMul[PB, PB]]], one_over_2p]], RMul[RMul[RMul[Vec8d(108), PA], RMul[PB, PB]], RMul[one_over_2p, one_over_2p]]], RMul[RMul[Vec8d(90), PA], RMul[RMul[one_over_2p, one_over_2p], one_over_2p]]], RMul[RMul[Vec8d(36), RMul[RMul[PB, PB], PB]], RMul[one_over_2p, one_over_2p]]], RMul[RMul[Vec8d(180), PB], RMul[RMul[one_over_2p, one_over_2p], one_over_2p]]]
      [] a = 3 /\ b = 4 /\ tt = 2 ->
        RAdd[RAdd[RAdd[RAdd[RAdd[RAdd[RMul[RMul[RMul[Vec8d(18), RMul[PA, PA]], RMul[PB, PB]], RMul[one_over_2p, one_over_2p]], RMul[RMul[Vec8d(18), RMul[PA, PA]], RMul[RMul[one_over_2p, one_over_2p], one_over_2p]]], RMul[RMul[RMul[Vec8d(24), PA], RMul[RMul[PB, PB], PB]], RMul[one_over_2p, one_over_2p]]], RMul[RMul[RMul[Vec8d(144), PA], PB], RMul[RMul[one_over_2p, one_over_2p], one_over_2p]]], RMul[RMul[Vec8d(3), RMul[RMul[PB, PB], RMul[PB, PB]]], RMul[one_over_2p, one_over_2p]]], RMul[RMul[Vec8d(108), RMul[PB, PB]], RMul[RMul[one_over_2p, one_over_2p], one_over_2p]]], RMul[Vec8d(135), RMul[RMul[one_over_2p, one_over_2p], RMul[one_over_2p, one_over_2p]]]]
      [] a = 3 /\ b = 4 /\ tt = 3 ->
        RAdd[RAdd[RAdd[RAdd[RMul[RMul[RMul[Vec8d(12), RMul[PA, PA]], PB], RMul[RMul[one_over_2p, one_over_2p], one_over_2p]], RMul[RMul[RMul[Vec8d(36), PA], RMul[PB, PB]], RMul[RMul[one_over_2p, one_over_2p], one_over_2p]]], RMul[RMul[Vec8d(60), PA], RMul[RMul[one_over_2p, one_over_2p], RMul[one_over_2p, one_over_2p]]]], RMul[RMul[Vec8d(12), RMul[RMul[PB, PB], PB]], RMul[RMul[one_over_2p, one_over_2p], one_over_2p]]], RMul[RMul[Vec8d(120), PB], RMul[RMul[one_over_2p, one_over_2p], RMul[one_over_2p, one_over_2p]]]]
      [] a = 3 /\ b = 4 /\ tt = 4 ->
        RAdd[RAdd[RAdd[RMul[RMul[Vec8d(3), RMul[PA, PA]], RMul[RMul[one_over_2p, one_over_2p], RMul[one_over_2p, one_over_2p]]], RMul[RMul[RMul[Vec8d(24), PA], PB], RMul[RMul[one_over_2p, one_over_2p], RMul[one_over_2p, one_over_2p]]]], RMul[RMul[Vec8d(18), RMul[PB, PB]], RMul[RMul[one_over_2p, one_over_2p], RMul[one_over_2p, one_over_2p]]]], RMul[Vec8d(45), RMul[RMul[RMul[one_over_2p, one_over_2p], RMul[one_over_2p, one_over_2p]], one_over_2p]]]
      [] a = 3 /\ b = 4 /\ tt = 5 ->
        RAdd[RMul[RMul[Vec8d(6), PA], RMul[RMul[RMul[one_over_2p, one_over_2p], RMul[one_over_2p, one_over_2p]], one_over_2p]], RMul[RMul[Vec8d(12), PB], RMul[RMul[RMul[one_over_2p, one_over_2p], RMul[one_over_2p, one_over_2p]], one_over_2p]]]
      [] a = 3 /\ b = 4 /\ tt = 6 ->
        RMul[Vec8d(3), RMul[RMul[RMul[one_over_2p, one_over_2p], one_over_2p], RMul[RMul[one_over_2p, one_over_2p], one_over_2p]]]
      [] a = 3 /\ b = 4 /\ tt = 7 ->
        Vec8d(0)
      [] a = 4 /\ b = 0 /\ tt = 0 ->
        RAdd[RMul[Vec8d(4), RMul[RMul[PA, PA], PA]], RMul[RMul[Vec8d(12), PA], one_over_2p]]
      [] a = 4 /\ b = 0 /\ tt = 1 ->
        RAdd[RMul[RMul[Vec8d(12), RMul[PA, PA]], one_over_2p], RMul[Vec8d(12), RMul[one_over_2p, one_over_2p]]]
      [] a = 4 /\ b = 0 /\ tt = 2 ->
        RMul[RMul[Vec8d(12), PA], RMul[one_over_2p, one_over_2p]]
      [] a = 4 /\ b = 0 /\ tt = 3 ->
        RMul[Vec8d(4), RMul[RMul[one_over_2p, one_over_2p], one_over_2p]]
      [] a = 4 /\ b = 0 /\ tt = 4 ->
        Vec8d(0)
      [] a = 4 /\ b = 1 /\ tt = 0 ->
        RAdd[RAdd[RAdd[RMul[RMul[Vec8d(4), RMul[RMul[PA, PA], PA]], PB], RMul[RMul[Vec8d(12), RMul[PA, PA]], one_over_2p]], RMul[RMul[RMul[Vec8d(12), PA], PB], one_over_2p]], RMul[Vec8d(12), RMul[one_over_2p, one_over_2p]]]
      [] a = 4 /\ b = 1 /\ tt = 1 ->
        RAdd[RAdd[RAdd[RMul[RMul[Vec8d(4), RMul[RMul[PA, PA], PA]], one_over_2p], RMul[RMul[RMul[Vec8d(12), RMul[PA, PA]], PB], one_over_2p]], RMul[RMul[Vec8d(36), PA], RMul[one_over_2p, one_over_2p]]], RMul[RMul[Vec8d(12), PB], RMul[one_over_2p, one_over_2p]]]
      [] a = 4 /\ b = 1 /\ tt = 2 ->
        RAdd[RAdd[RMul[RMul[Vec8d(12), RMul[PA, PA]], RMul[one_over_2p, one_over_2p]], RMul[RMul[RMul[Vec8d(12), PA], PB], RMul[one_over_2p, one_over_2p]]], RMul[Vec8d(24), RMul[RMul[one_over_2p, one_over_2p], one_over_2p]]]
      [] a = 4 /\ b = 1 /\ tt = 3 ->
        RAdd[RMul[RMul[Vec8d(12), PA], RMul[RMul[one_over_2p, one_over_2p], one_over_2p]], RMul[RMul[Vec8d(4), PB], RMul[RMul[one_over_2p, one_over_2p], one_over_2p]]]
      [] a = 4 /\ b = 1 /\ tt = 4 ->
        RMul[Vec8d(4), RMul[RMul[one_over_2p, one_over_2p], RMul[one_over_2p, one_over_2p]]]
      [] a = 4 /\ b = 1 /\ tt = 5 ->
        Vec8d(0)
      [] a = 4 /\ b = 2 /\ tt = 0 ->
        RAdd[RAdd[RAdd[RAdd[RAdd[RMul[RMul[Vec8d(4), RMul[RMul[PA, PA], PA]], RMul[PB, PB]], RMul[RMul[Vec8d(4), RMul[RMul[PA, PA], PA]], one_over_2p]], RMul[RMul[RMul[Vec8d(24), RMul[PA, PA]], PB], one_over_2p]], RMul[RMul[RMul[Vec8d(12), PA], RMul[PB, PB]], one_over_2p]], RMul[RMul[Vec8d(36), PA], RMul[one_over_2p, one_over_2p]]], RMul[RMul[Vec8d(24), PB], RMul[one_over_2p, one_over_2p]]]
      [] a = 4 /\ b = 2 /\ tt = 1 ->
        RAdd[RAdd[RAdd[RAdd[RAdd[RMul[RMul[RMul[Vec8d(8), RMul[RMul[PA, PA], PA]], PB], one_over_2p], RMul[RMul[RMul[Vec8d(12), RMul[PA, PA]], RMul[PB, PB]], one_over_2p]], RMul[RMul[Vec8d(36), RMul[PA, PA]], RMul[one_over_2p, one_over_2p]]], RMul[RMul[RMul[Vec8d(72), PA], PB], RMul[one_over_2p, one_over_2p]]], RMul[RMul[Vec8d(12), RMul[PB, PB]], RMul[one_over_2p, one_over_2p]]], RMul[Vec8d(60), RMul[RMul[one_over_2p, one_over_2p], one_over_2p]]]
      [] a = 4 /\ b = 2 /\ tt = 2 ->
        RAdd[RAdd[RAdd[RAdd[RMul[RMul[Vec8d(4), RMul[RMul[PA, PA], PA]], RMul[one_over_2p, one_over_2p]], RMul[RMul[RMul[Vec8d(24), RMul[PA, PA]], PB], RMul[one_over_2p, one_over_2p]]], RMul[RMul[RMul[Vec8d(12), PA], RMul[PB, PB]], RMul[one_over_2p, one_over_2p]]], RMul[RMul[Vec8d(72), PA], RMul[RMul[one_over_2p, one_over_2p], one_over_2p]]], RMul[RMul[Vec8d(48), PB], RMul[RMul[one_over_2p, one_over_2p], one_over_2p]]]
      [] a = 4 /\ b = 2 /\ tt = 3 ->
        RAdd[RAdd[RAdd[RMul[RMul[Vec8d(12), RMul[PA, PA]], RMul[RMul[one_over_2p, one_over_2p], one_over_2p]], RMul[RMul[RMul[Vec8d(24), PA], PB], RMul[RMul[one_over_2p, one_over_2p], one_over_2p]]], RMul[RMul[Vec8d(4), RMul[PB, PB]], RMul[RMul[one_over_2p, one_over_2p], one_over_2p]]], RMul[Vec8d(40), RMul[RMul[one_over_2p, one_over_2p], RMul[one_over_2p, one_over_2p]]]]
      [] a = 4 /\ b = 2 /\ tt = 4 ->
        RAdd[RMul[RMul[Vec8d(12), PA], RMul[RMul[one_over_2p, one_over_2p], RMul[one_over_2p, one_over_2p]]], RMul[RMul[Vec8d(8), PB], RMul[RMul[one_over_2p, one_over_2p], RMul[one_over_2p, one_over_2p]]]]
      [] a = 4 /\ b = 2 /\ tt = 5 ->
        RMul[Vec8d(4), RMul[RMul[RMul[one_over_2p, one_over_2p], RMul[one_over_2p, one_over_2p]], one_over_2p]]
      [] a = 4 /\ b = 2 /\ tt = 6 ->
        Vec8d(0)
      [] a = 4 /\ b = 3 /\ tt = 0 ->
        RAdd[RAdd[RAdd[RAdd[RAdd[RAdd[RAdd[RMul[RMul[Vec8d(4), RMul[RMul[PA, PA], PA]], RMul[RMul[PB, PB], PB]], RMul[RMul[RMul[Vec8d(12), RMul[RMul[PA, PA], PA]], PB], one_over_2p]], RMul[RMul[RMul[Vec8d(36), RMul[PA, PA]], RMul[PB, PB]], one_over_2p]], RMul[RMul[Vec8d(36), RMul[PA, PA]], RMul[one_over_2p, one_over_2p]]], RMul[RMul[RMul[Vec8d(12), PA], RMul[RMul[PB, PB], PB]], one_over_2p]], RMul[RMul[RMul[Vec8d(108), PA], PB], RMul[one_over_2p, one_over_2p]]], RMul[RMul[Vec8d(36), RMul[PB, PB]], RMul[one_over_2p, one_over_2p]]], RMul[Vec8d(60), RMul[RMul[one_over_2p, one_over_2p], one_over_2p]]]
      [] a = 4 /\ b = 3 /\ tt = 1 ->
        RAdd[RAdd[RAdd[RAdd[RAdd[RAdd[RAdd[RMul[RMul[RMul[Vec8d(12), RMul[RMul[PA, PA], PA]], RMul[PB, PB]], one_over_2p], RMul[RMul[Vec8d(12), RMul[RMul[PA, PA], PA]], RMul[one_over_2p, one_over_2p]]], RMul[RMul[RMul[Vec8d(12), RMul[PA, PA]], RMul[RMul[PB, PB], PB]], one_over_2p]], RMul[RMul[RMul[Vec8d(108), RMul[PA, PA]], PB], RMul[one_over_2p, one_over_2p]]], RMul[RMul[RMul[Vec8d(108), PA], RMul[PB, PB]], RMul[one_over_2p, one_over_2p]]], RMul[RMul[Vec8d(180), PA], RMul[RMul[one_over_2p, one_over_2p], one_over_2p]]], RMul[RMul[Vec8d(12), RMul[RMul[PB, PB], PB]], RMul[one_over_2p, one_over_2p]]], RMul[RMul[Vec8d(180), PB], RMul[RMul[one_over_2p, one_over_2p], one_over_2p]]]
      [] a = 4 /\ b = 3 /\ tt = 2 ->
        RAdd[RAdd[RAdd[RAdd[RAdd[RAdd[RMul[RMul[RMul[Vec8d(12), RMul[RMul[PA, PA], PA]], PB], RMul[one_over_2p, one_over_2p]], RMul[RMul[RMul[Vec8d(36), RMul[PA, PA]], RMul[PB, PB]], RMul[one_over_2p, one_over_2p]]], RMul[RMul[Vec8d(72), RMul[PA, PA]], RMul[RMul[one_over_2p, one_over_2p], one_over_2p]]], RMul[RMul[RMul[Vec8d(12), PA], RMul[RMul[PB, PB], PB]], RMul[one_over_2p, one_over_2p]]], RMul[RMul[RMul[Vec8d(216), PA], PB], RMul[RMul[one_over_2p, one_over_2p], one_over_2p]]], RMul[RMul[Vec8d(72), RMul[PB, PB]], RMul[RMul[one_over_2p, one_over_2p], one_over_2p]]], RMul[Vec8d(180), RMul[RMul[one_over_2p, one_over_2p], RMul[one_over_2p, one_over_2p]]]]
      [] a = 4 /\ b = 3 /\ tt = 3 ->
        RAdd[RAdd[RAdd[RAdd[RAdd[RMul[RMul[Vec8d(4), RMul[RMul[PA, PA], PA]], RMul[RMul[one_over_2p, one_over_2p], one_over_2p]], RMul[RMul[RMul[Vec8d(36), RMul[PA, PA]], PB], RMul[RMul[one_over_2p, one_over_2p], one_over_2p]]], RMul[RMul[RMul[Vec8d(36), PA], RMul[PB, PB]], RMul[RMul[one_over_2p, one_over_2p], one_over_2p]]], RMul[RMul[Vec8d(120), PA], RMul[RMul[one_over_2p, one_over_2p], RMul[one_over_2p, one_over_2p]]]], RMul[RMul[Vec8d(4), RMul[RMul[PB, PB], PB]], RMul[RMul[one_over_2p, one_over_2p], one_over_2p]]], RMul[RMul[Vec8d(120), PB], RMul[RMul[one_over_2p, one_over_2p], RMul[one_over_2p, one_over_2p]]]]
      [] a = 4 /\ b = 3 /\ tt = 4 ->
        RAdd[RAdd[RAdd[RMul[RMul[Vec8d(12), RMul[PA, PA]], RMul[RMul[one_over_2p, one_over_2p], RMul[one_over_2p, one_over_2p]]], RMul[RMul[RMul[Vec8d(36), PA], PB], RMul[RMul[one_over_2p, one_over_2p], RMul[one_over_2p, one_over_2p]]]], RMul[RMul[Vec8d(12), RMul[PB, PB]], RMul[RMul[one_over_2p, one_over_2p], RMul[one_over_2p, one_over_2p]]]], RMul[Vec8d(60), RMul[RMul[RMul[one_over_2p, one_over_2p], RMul[one_over_2p, one_over_2p]], one_over_2p]]]
      [] a = 4 /\ b = 3 /\ tt = 5 ->
        RAdd[RMul[RMul[Vec8d(12), PA], RMul[RMul[RMul[one_over_2p, one_over_2p], RMul[one_over_2p, one_over_2p]], one_over_2p]], RMul[RMul[Vec8d(12), PB], RMul[RMul[RMul[one_over_2p, one_over_2p], RMul[one_over_2p, one_over_2p]], one_over_2p]]]
      [] a = 4 /\ b = 3 /\ tt = 6 ->
        RMul[Vec8d(4), RMul[RMul[RMul[one_over_2p, one_over_2p], one_over_2p], RMul[RMul[one_over_2p, one_over_2p], one_over_2p]]]
      [] a = 4 /\ b = 3 /\ tt = 7 ->
        Vec8d(0)
      [] a = 4 /\ b = 4 /\ tt = 0 ->
        RAdd[RAdd[RAdd[RAdd[RAdd[RAdd[RAdd[RAdd[RAdd[RMul[RMul[Vec8d(4), RMul[RMul[PA, PA], PA]], RMul[RMul[PB, PB], RMul[PB, PB]]], RMul[RMul[RMul[Vec8d(24), RMul[RMul[PA, PA], PA]], RMul[PB, PB]], one_over_2p]], RMul[RMul[Vec8d(12), RMul[RMul[PA, PA], PA]], RMul[one_over_2p, one_over_2p]]], RMul[RMul[RMul[Vec8d(48), RMul[PA, PA]], RMul[RMul[PB, PB], PB]], one_over_2p]], RMul[RMul[RMul[Vec8d(144), RMul[PA, PA]], PB], RMul[one_over_2p, one_over_2p]]], RMul[RMul[RMul[Vec8d(12), PA], RMul[RMul[PB, PB], RMul[PB, PB]]], one_over_2p]], RMul[RMul[RMul[Vec8d(216), PA], RMul[PB, PB]], RMul[one_over_2p, one_over_2p]]], RMul[RMul[Vec8d(180), PA], RMul[RMul[one_over_2p, one_over_2p], one_over_2p]]], RMul[RMul[Vec8d(48), RMul[RMul[PB, PB], PB]], RMul[one_over_2p, one_over_2p]]], RMul[RMul[Vec8d(240), PB], RMul[RMul[one_over_2p, one_over_2p], one_over_2p]]]
      [] a = 4 /\ b = 4 /\ tt = 1 ->
        RAdd[RAdd[RAdd[RAdd[RAdd[RAdd[RAdd[RAdd[RAdd[RMul[RMul[RMul[Vec8d(16), RMul[RMul[PA, PA], PA]], RMul[RMul[PB, PB], PB]], one_over_2p], RMul[RMul[RMul[Vec8d(48), RMul[RMul[PA, PA], PA]], PB], RMul[one_over_2p, one_over_2p]]], RMul[RMul[RMul[Vec8d(12), RMul[PA, PA]], RMul[RMul[PB, PB], RMul[PB, PB]]], one_over_2p]], RMul[RMul[RMul[Vec8d(216), RMul[PA, PA]], RMul[PB, PB]], RMul[one_over_2p, one_over_2p]]], RMul[RMul[Vec8d(180), RMul[PA, PA]], RMul[RMul[one_over_2p, one_over_2p], one_over_2p]]], RMul[RMul[RMul[Vec8d(144), PA], RMul[RMul[PB, PB], PB]], RMul[one_over_2p, one_over_2p]]], RMul[RMul[RMul[Vec8d(720), PA], PB], RMul[RMul[one_over_2p, one_over_2p], one_over_2p]]], RMul[RMul[Vec8d(12), RMul[RMul[PB, PB], RMul[PB, PB]]], RMul[one_over_2p, one_over_2p]]], RMul[RMul[Vec8d(360), RMul[PB, PB]], RMul[RMul[one_over_2p, one_over_2p], one_over_2p]]], RMul[Vec8d(420), RMul[RMul[one_over_2p, one_over_2p], RMul[one_over_2p, one_over_2p]]]]
      [] a = 4 /\ b = 4 /\ tt = 2 ->
        RAdd[RAdd[RAdd[RAdd[RAdd[RAdd[RAdd[RAdd[RMul[RMul[RMul[Vec8d(24), RMul[RMul[PA, PA], PA]], RMul[PB, PB]], RMul[one_over_2p, one_over_2p]], RMul[RMul[Vec8d(24), RMul[RMul[PA, PA], PA]], RMul[RMul[one_over_2p, one_over_2p], one_over_2p]]], RMul[RMul[RMul[Vec8d(48), RMul[PA, PA]], RMul[RMul[PB, PB], PB]], RMul[one_over_2p, one_over_2p]]], RMul[RMul[RMul[Vec8d(288), RMul[PA, PA]], PB], RMul[RMul[one_over_2p, one_over_2p], one_over_2p]]], RMul[RMul[RMul[Vec8d(12), PA], RMul[RMul[PB, PB], RMul[PB, PB]]], RMul[one_over_2p, one_over_2p]]], RMul[RMul[RMul[Vec8d(432), PA], RMul[PB, PB]], RMul[RMul[one_over_2p, one_over_2p], one_over_2p]]], RMul[RMul[Vec8d(540), PA], RMul[RMul[one_over_2p, one_over_2p], RMul[one_over_2p, one_over_2p]]]], RMul[RMul[Vec8d(96), RMul[RMul[PB, PB], PB]], RMul[RMul[one_over_2p, one_over_2p], one_over_2p]]], RMul[RMul[Vec8d(720), PB], RMul[RMul[one_over_2p, one_over_2p], RMul[one_over_2p, one_over_2p]]]]
      [] a = 4 /\ b = 4 /\ tt = 3 ->
        RAdd[RAdd[RAdd[RAdd[RAdd[RAdd[RAdd[RMul[RMul[RMul[Vec8d(16), RMul[RMul[PA, PA], PA]], PB], RMul[RMul[one_over_2p, one_over_2p], one_over_2p]], RMul[RMul[RMul[Vec8d(72), RMul[PA, PA]], RMul[PB, PB]], RMul[RMul[one_over_2p, one_over_2p], one_over_2p]]], RMul[RMul[Vec8d(120), RMul[PA, PA]], RMul[RMul[one_over_2p, one_over_2p], RMul[one_over_2p, one_over_2p]]]], RMul[RMul[RMul[Vec8d(48), PA], RMul[RMul[PB, PB], PB]], RMul[RMul[one_over_2p, one_over_2p], one_over_2p]]], RMul[RMul[RMul[Vec8d(480), PA], PB], RMul[RMul[one_over_2p, one_over_2p], RMul[one_over_2p, one_over_2p]]]], RMul[RMul[Vec8d(4), RMul[RMul[PB, PB], RMul[PB, PB]]], RMul[RMul[one_over_2p, one_over_2p], one_over_2p]]], RMul[RMul[Vec8d(240), RMul[PB, PB]], RMul[RMul[one_over_2p, one_over_2p], RMul[one_over_2p, one_over_2p]]]], RMul[Vec8d(420), RMul[RMul[RMul[one_over_2p, one_over_2p], RMul[one_over_2p, one_over_2p]], one_over_2p]]]
      [] a = 4 /\ b = 4 /\ tt = 4 ->
        RAdd[RAdd[RAdd[RAdd[RAdd[RMul[RMul[Vec8d(4), RMul[RMul[PA, PA], PA]], RMul[RMul[one_over_2p, one_over_2p], RMul[one_over_2p, one_over_2p]]], RMul[RMul[RMul[Vec8d(48), RMul[PA, PA]], PB], RMul[RMul[one_over_2p, one_over_2p], RMul[one_over_2p, one_over_2p]]]], RMul[RMul[RMul[Vec8d(72), PA], RMul[PB, PB]], RMul[RMul[one_over_2p, one_over_2p], RMul[one_over_2p, one_over_2p]]]], RMul[RMul[Vec8d(180), PA], RMul[RMul[RMul[one_over_2p, one_over_2p], RMul[one_over_2p, one_over_2p]], one_over_2p]]], RMul[RMul[Vec8d(16), RMul[RMul[PB, PB], PB]], RMul[RMul[one_over_2p, one_over_2p], RMul[one_over_2p, one_over_2p]]]], RMul[RMul[Vec8d(240), PB], RMul[RMul[RMul[one_over_2p, one_over_2p], RMul[one_over_2p, one_over_2p]], one_over_2p]]]
      [] a = 4 /\ b = 4 /\ tt = 5 ->
        RAdd[RAdd[RAdd[RMul[RMul[Vec8d(12), RMul[PA, PA]], RMul[RMul[RMul[one_over_2p, one_over_2p], RMul[one_over_2p, one_over_2p]], one_over_2p]], RMul[RMul[RMul[Vec8d(48), PA], PB], RMul[RMul[RMul[one_over_2p, one_over_2p], RMul[one_over_2p, one_over_2p]], one_over_2p]]], RMul[RMul[Vec8d(24), RMul[PB, PB]], RMul[RMul[RMul[one_over_2p, one_over_2p], RMul[one_over_2p, one_over_2p]], one_over_2p]]], RMul[Vec8d(84), RMul[RMul[RMul[one_over_2p, one_over_2p], one_over_2p], RMul[RMul[one_over_2p, one_over_2p], one_over_2p]]]]
      [] a = 4 /\ b = 4 /\ tt = 6 ->
        RAdd[RMul[RMul[Vec8d(12), PA], RMul[RMul[RMul[one_over_2p, one_over_2p], one_over_2p], RMul[RMul[one_over_2p, one_over_2p], one_over_2p]]], RMul[RMul[Vec8d(16), PB], RMul[RMul[RMul[one_over_2p, one_over_2p], one_over_2p], RMul[RMul[one_over_2p, one_over_2p], one_over_2p]]]]
      [] a = 4 /\ b = 4 /\ tt = 7 ->
        RMul[Vec8d(4), RMul[RMul[RMul[RMul[one_over_2p, one_over_2p], one_over_2p], RMul[RMul[one_over_2p, one_over_2p], one_over_2p]], one_over_2p]]
      [] a = 4 /\ b = 4 /\ tt = 8 ->
        Vec8d(0)

\* the generated functions hermite_dE_dPB_nA_nB_t(PA, PB, one_over_2p)
hermite_dE_dPB(a, b, tt, PA, PB, one_over_2p) ==
    CASE a = 0 /\ b = 0 /\ tt = 0 ->
        Vec8d(0)
      [] a = 0 /\ b = 1 /\ tt = 0 ->
        Vec8d(1)
      [] a = 0 /\ b = 1 /\ tt = 1 ->
        Vec8d(0)
      [] a = 0 /\ b = 2 /\ tt = 0 ->
        RMul[Vec8d(2), PB]
      [] a = 0 /\ b = 2 /\ tt = 1 ->
        RMul[Vec8d(2), one_over_2p]
      [] a = 0 /\ b = 2 /\ tt = 2 ->
        Vec8d(0)
      [] a = 0 /\ b = 3 /\ tt = 0 ->
        RAdd[RMul[Vec8d(3), RMul[PB, PB]], RMul[Vec8d(3), one_over_2p]]
      [] a = 0 /\ b = 3 /\ tt = 1 ->
        RMul[RMul[Vec8d(6), PB], one_over_2p]
      [] a = 0 /\ b = 3 /\ tt = 2 ->
        RMul[Vec8d(3), RMul[one_over_2p, one_over_2p]]
      [] a = 0 /\ b = 3 /\ tt = 3 ->
        Vec8d(0)
      [] a = 0 /\ b = 4 /\ tt = 0 ->
        RAdd[RMul[Vec8d(4), RMul[RMul[PB, PB], PB]], RMul[RMul[Vec8d(12), PB], one_over_2p]]
      [] a = 0 /\ b = 4 /\ tt = 1 ->
        RAdd[RMul[RMul[Vec8d(12), RMul[PB, PB]], one_over_2p], RMul[Vec8d(12), RMul[one_over_2p, one_over_2p]]]
      [] a = 0 /\ b = 4 /\ tt = 2 ->
        RMul[RMul[Vec8d(12), PB], RMul[one_over_2p, one_over_2p]]
      [] a = 0 /\ b = 4 /\ tt = 3 ->
        RMul[Vec8d(4), RMul[RMul[one_over_2p, one_over_2p], one_over_2p]]
      [] a = 0 /\ b = 4 /\ tt = 4 ->
        Vec8d(0)
      [] a = 1 /\ b = 0 /\ tt = 0 ->
        Vec8d(0)
      [] a = 1 /\ b = 0 /\ tt = 1 ->
        Vec8d(0)
      [] a = 1 /\ b = 1 /\ tt = 0 ->
        PA
      [] a = 1 /\ b = 1 /\ tt = 1 ->
        one_over_2p
      [] a = 1 /\ b = 1 /\ tt = 2 ->
        Vec8d(0)
      [] a = 1 /\ b = 2 /\ tt = 0 ->
        RAdd[RMul[RMul[Vec8d(2), PA], PB], RMul[Vec8d(2), one_over_2p]]
      [] a = 1 /\ b = 2 /\ tt = 1 ->
        RAdd[RMul[RMul[Vec8d(2), PA], one_over_2p], RMul[RMul[Vec8d(2), PB], one_over_2p]]
      [] a = 1 /\ b = 2 /\ tt = 2 ->
        RMul[Vec8d(2), RMul[one_over_2p, one_over_2p]]
      [] a = 1 /\ b = 2 /\ tt = 3 ->
        Vec8d(0)
      [] a = 1 /\ b = 3 /\ tt = 0 ->
        RAdd[RAdd[RMul[RMul[Vec8d(3), PA], RMul[PB, PB]], RMul[RMul[Vec8d(3), PA], one_over_2p]], RMul[RMul[Vec8d(6), PB], one_over_2p]]
      [] a = 1 /\ b = 3 /\ tt = 1 ->
        RAdd[RAdd[RMul[RMul[RMul[Vec8d(6), PA], PB], one_over_2p], RMul[RMul[Vec8d(3), RMul[PB, PB]], one_over_2p]], RMul[Vec8d(9), RMul[one_over_2p, one_over_2p]]]
      [] a = 1 /\ b = 3 /\ tt = 2 ->
        RAdd[RMul[RMul[Vec8d(3), PA], RMul[one_over_2p, one_over_2p]], RMul[RMul[Vec8d(6), PB], RMul[one_over_2p, one_over_2p]]]
      [] a = 1 /\ b = 3 /\ tt = 3 ->
        RMul[Vec8d(3), RMul[RMul[one_over_2p, one_over_2p], one_over_2p]]
      [] a = 1 /\ b = 3 /\ tt = 4 ->
        Vec8d(0)
      [] a = 1 /\ b = 4 /\ tt = 0 ->
        RAdd[RAdd[RAdd[RMul[RMul[Vec8d(4), PA], RMul[RMul[PB, PB], PB]], RMul[RMul[RMul[Vec8d(12), PA], PB], one_over_2p]], RMul[RMul[Vec8d(12), RMul[PB, PB]], one_over_2p]], RMul[Vec8d(12), RMul[one_over_2p, one_over_2p]]]
      [] a = 1 /\ b = 4 /\ tt = 1 ->
        RAdd[RAdd[RAdd[RMul[RMul[RMul[Vec8d(12), PA], RMul[PB, PB]], one_over_2p], RMul[RMul[Vec8d(12), PA], RMul[one_over_2p, one_over_2p]]], RMul[RMul[Vec8d(4), RMul[RMul[PB, PB], PB]], one_over_2p]], RMul[RMul[Vec8d(36), PB], RMul[one_over_2p, one_over_2p]]]
      [] a = 1 /\ b = 4 /\ tt = 2 ->
        RAdd[RAdd[RMul[RMul[RMul[Vec8d(12), PA], PB], RMul[one_over_2p, one_over_2p]], RMul[RMul[Vec8d(12), RMul[PB, PB]], RMul[one_over_2p, one_over_2p]]], RMul[Vec8d(24), RMul[RMul[one_over_2p, one_over_2p], one_over_2p]]]
      [] a = 1 /\ b = 4 /\ tt = 3 ->
        RAdd[RMul[RMul[Vec8d(4), PA], RMul[RMul[one_over_2p, one_over_2p], one_over_2p]], RMul[RMul[Vec8d(12), PB], RMul[RMul[one_over_2p, one_over_2p], one_over_2p]]]
      [] a = 1 /\ b = 4 /\ tt = 4 ->
        RMul[Vec8d(4), RMul[RMul[one_over_2p, one_over_2p], RMul[one_over_2p, one_over_2p]]]
      [] a = 1 /\ b = 4 /\ tt = 5 ->
        Vec8d(0)
      [] a = 2 /\ b = 0 /\ tt = 0 ->
        Vec8d(0)
      [] a = 2 /\ b = 0 /\ tt = 1 ->
        Vec8d(0)
      [] a = 2 /\ b = 0 /\ tt = 2 ->
        Vec8d(0)
      [] a = 2 /\ b = 1 /\ tt = 0 ->
        RAdd[RMul[PA, PA], one_over_2p]
      [] a = 2 /\ b = 1 /\ tt = 1 ->
        RMul[RMul[Vec8d(2), PA], one_over_2p]
      [] a = 2 /\ b = 1 /\ tt = 2 ->
        RMul[one_over_2p, one_over_2p]
      [] a = 2 /\ b = 1 /\ tt = 3 ->
        Vec8d(0)
      [] a = 2 /\ b = 2 /\ tt = 0 ->
        RAdd[RAdd[RMul[RMul[Vec8d(2), RMul[PA, PA]], PB], RMul[RMul[Vec8d(4), PA], one_over_2p]], RMul[RMul[Vec8d(2), PB], one_over_2p]]
      [] a = 2 /\ b = 2 /\ tt = 1 ->
        RAdd[RAdd[RMul[RMul[Vec8d(2), RMul[PA, PA]], one_over_2p], RMul[RMul[RMul[Vec8d(4), PA], PB], one_over_2p]], RMul[Vec8d(6), RMul[one_over_2p, one_over_2p]]]
      [] a = 2 /\ b = 2 /\ tt = 2 ->
        RAdd[RMul[RMul[Vec8d(4), PA], RMul[one_over_2p, one_over_2p]], RMul[RMul[Vec8d(2), PB], RMul[one_over_2p, one_over_2p]]]
      [] a = 2 /\ b = 2 /\ tt = 3 ->
        RMul[Vec8d(2), RMul[RMul[one_over_2p, one_over_2p], one_over_2p]]
      [] a = 2 /\ b = 2 /\ tt = 4 ->
        Vec8d(0)
      [] a = 2 /\ b = 3 /\ tt = 0 ->
        RAdd[RAdd[RAdd[RAdd[RMul[RMul[Vec8d(3), RMul[PA, PA]], RMul[PB, PB]], RMul[RMul[Vec8d(3), RMul[PA, PA]], one_over_2p]], RMul[RMul[RMul[Vec8d(12), PA], PB], one_over_2p]], RMul[RMul[Vec8d(3), RMul[PB, PB]], one_over_2p]], RMul[Vec8d(9), RMul[one_over_2p, one_over_2p]]]
      [] a = 2 /\ b = 3 /\ tt = 1 ->
        RAdd[RAdd[RAdd[RMul[RMul[RMul[Vec8d(6), RMul[PA, PA]], PB], one_over_2p], RMul[RMul[RMul[Vec8d(6), PA], RMul[PB, PB]], one_over_2p]], RMul[RMul[Vec8d(18), PA], RMul[one_over_2p, one_over_2p]]], RMul[RMul[Vec8d(18), PB], RMul[one_over_2p, one_over_2p]]]
      [] a = 2 /\ b = 3 /\ tt = 2 ->
        RAdd[RAdd[RAdd[RMul[RMul[Vec8d(3), RMul[PA, PA]], RMul[one_over_2p, one_over_2p]], RMul[RMul[RMul[Vec8d(12), PA], PB], RMul[one_over_2p, one_over_2p]]], RMul[RMul[Vec8d(3), RMul[PB, PB]], RMul[one_over_2p, one_over_2p]]], RMul[Vec8d(18), RMul[RMul[one_over_2p, one_over_2p], one_over_2p]]]
      [] a = 2 /\ b = 3 /\ tt = 3 ->
        RAdd[RMul[RMul[Vec8d(6), PA], RMul[RMul[one_over_2p, one_over_2p], one_over_2p]], RMul[RMul[Vec8d(6), PB], RMul[RMul[one_over_2p, one_over_2p], one_over_2p]]]
      [] a = 2 /\ b = 3 /\ tt = 4 ->
        RMul[Vec8d(3), RMul[RMul[one_over_2p, one_over_2p], RMul[one_over_2p, one_over_2p]]]
      [] a = 2 /\ b = 3 /\ tt = 5 ->
        Vec8d(0)
      [] a = 2 /\ b = 4 /\ tt = 0 ->
        RAdd[RAdd[RAdd[RAdd[RAdd[RMul[RMul[Vec8d(4), RMul[PA, PA]], RMul[RMul[PB, PB], PB]], RMul[RMul[RMul[Vec8d(12), RMul[PA, PA]], PB], one_over_2p]], RMul[RMul[RMul[Vec8d(24), PA], RMul[PB, PB]], one_over_2p]], RMul[RMul[Vec8d(24), PA], RMul[one_over_2p, one_over_2p]]], RMul[RMul[Vec8d(4), RMul[RMul[PB, PB], PB]], one_over_2p]], RMul[RMul[Vec8d(36), PB], RMul[one_over_2p, one_over_2p]]]
      [] a = 2 /\ b = 4 /\ tt = 1 ->
        RAdd[RAdd[RAdd[RAdd[RAdd[RMul[RMul[RMul[Vec8d(12), RMul[PA, PA]], RMul[PB, PB]], one_over_2p], RMul[RMul[Vec8d(12), RMul[PA, PA]], RMul[one_over_2p, one_over_2p]]], RMul[RMul[RMul[Vec8d(8), PA], RMul[RMul[PB, PB], PB]], one_over_2p]], RMul[RMul[RMul[Vec8d(72), PA], PB], RMul[one_over_2p, one_over_2p]]], RMul[RMul[Vec8d(36), RMul[PB, PB]], RMul[one_over_2p, one_over_2p]]], RMul[Vec8d(60), RMul[RMul[one_over_2p, one_over_2p], one_over_2p]]]
      [] a = 2 /\ b = 4 /\ tt = 2 ->
        RAdd[RAdd[RAdd[RAdd[RMul[RMul[RMul[Vec8d(12), RMul[PA, PA]], PB], RMul[one_over_2p, one_over_2p]], RMul[RMul[RMul[Vec8d(24), PA], RMul[PB, PB]], RMul[one_over_2p, one_over_2p]]], RMul[RMul[Vec8d(48), PA], RMul[RMul[one_over_2p, one_over_2p], one_over_2p]]], RMul[RMul[Vec8d(4), RMul[RMul[PB, PB], PB]], RMul[one_over_2p, one_over_2p]]], RMul[RMul[Vec8d(72), PB], RMul[RMul[one_over_2p, one_over_2p], one_over_2p]]]
      [] a = 2 /\ b = 4 /\ tt = 3 ->
        RAdd[RAdd[RAdd[RMul[RMul[Vec8d(4), RMul[PA, PA]], RMul[RMul[one_over_2p, one_over_2p], one_over_2p]], RMul[RMul[RMul[Vec8d(24), PA], PB], RMul[RMul[one_over_2p, one_over_2p], one_over_2p]]], RMul[RMul[Vec8d(12), RMul[PB, PB]], RMul[RMul[one_over_2p, one_over_2p], one_over_2p]]], RMul[Vec8d(40), RMul[RMul[one_over_2p, one_over_2p], RMul[one_over_2p, one_over_2p]]]]
      [] a = 2 /\ b = 4 /\ tt = 4 ->
        RAdd[RMul[RMul[Vec8d(8), PA], RMul[RMul[one_over_2p, one_over_2p], RMul[one_over_2p, one_over_2p]]], RMul[RMul[Vec8d(12), PB], RMul[RMul[one_over_2p, one_over_2p], RMul[one_over_2p, one_over_2p]]]]
      [] a = 2 /\ b = 4 /\ tt = 5 ->
        RMul[Vec8d(4), RMul[RMul[RMul[one_over_2p, one_over_2p], RMul[one_over_2p, one_over_2p]], one_over_2p]]
      [] a = 2 /\ b = 4 /\ tt = 6 ->
        Vec8d(0)
      [] a = 3 /\ b = 0 /\ tt = 0 ->
        Vec8d(0)
      [] a = 3 /\ b = 0 /\ tt = 1 ->
        Vec8d(0)
      [] a = 3 /\ b = 0 /\ tt = 2 ->
        Vec8d(0)
      [] a = 3 /\ b = 0 /\ tt = 3 ->
        Vec8d(0)
      [] a = 3 /\ b = 1 /\ tt = 0 ->
        RAdd[RMul[RMul[PA, PA], PA], RMul[RMul[Vec8d(3), PA], one_over_2p]]
      [] a = 3 /\ b = 1 /\ tt = 1 ->
        RAdd[RMul[RMul[Vec8d(3), RMul[PA, PA]], one_over_2p], RMul[Vec8d(3), RMul[one_over_2p, one_over_2p]]]
      [] a = 3 /\ b = 1 /\ tt = 2 ->
        RMul[RMul[Vec8d(3), PA], RMul[one_over_2p, one_over_2p]]
      [] a = 3 /\ b = 1 /\ tt = 3 ->
        RMul[RMul[one_over_2p, one_over_2p], one_over_2p]
      [] a = 3 /\ b = 1 /\ tt = 4 ->
        Vec8d(0)
      [] a = 3 /\ b = 2 /\ tt = 0 ->
        RAdd[RAdd[RAdd[RMul[RMul[Vec8d(2), RMul[RMul[PA, PA], PA]], PB], RMul[RMul[Vec8d(6), RMul[PA, PA]], one_over_2p]], RMul[RMul[RMul[Vec8d(6), PA], PB], one_over_2p]], RMul[Vec8d(6), RMul[one_over_2p, one_over_2p]]]
      [] a = 3 /\ b = 2 /\ tt = 1 ->
        RAdd[RAdd[RAdd[RMul[RMul[Vec8d(2), RMul[RMul[PA, PA], PA]], one_over_2p], RMul[RMul[RMul[Vec8d(6), RMul[PA, PA]], PB], one_over_2p]], RMul[RMul[Vec8d(18), PA], RMul[one_over_2p, one_over_2p]]], RMul[RMul[Vec8d(6), PB], RMul[one_over_2p, one_over_2p]]]
      [] a = 3 /\ b = 2 /\ tt = 2 ->
        RAdd[RAdd[RMul[RMul[Vec8d(6), RMul[PA, PA]], RMul[one_over_2p, one_over_2p]], RMul[RMul[RMul[Vec8d(6), PA], PB], RMul[one_over_2p, one_over_2p]]], RMul[Vec8d(12), RMul[RMul[one_over_2p, one_over_2p], one_over_2p]]]
      [] a = 3 /\ b = 2 /\ tt = 3 ->
        RAdd[RMul[RMul[Vec8d(6), PA], RMul[RMul[one_over_2p, one_over_2p], one_over_2p]], RMul[RMul[Vec8d(2), PB], RMul[RMul[one_over_2p, one_over_2p], one_over_2p]]]
      [] a = 3 /\ b = 2 /\ tt = 4 ->
        RMul[Vec8d(2), RMul[RMul[one_over_2p, one_over_2p], RMul[one_over_2p, one_over_2p]]]
      [] a = 3 /\ b = 2 /\ tt = 5 ->
        Vec8d(0)
      [] a = 3 /\ b = 3 /\ tt = 0 ->
        RAdd[RAdd[RAdd[RAdd[RAdd[RMul[RMul[Vec8d(3), RMul[RMul[PA, PA], PA]], RMul[PB, PB]], RMul[RMul[Vec8d(3), RMul[RMul[PA, PA], PA]], one_over_2p]], RMul[RMul[RMul[Vec8d(18), RMul[PA, PA]], PB], one_over_2p]], RMul[RMul[RMul[Vec8d(9), PA], RMul[PB, PB]], one_over_2p]], RMul[RMul[Vec8d(27), PA], RMul[one_over_2p, one_over_2p]]], RMul[RMul[Vec8d(18), PB], RMul[one_over_2p, one_over_2p]]]
      [] a = 3 /\ b = 3 /\ tt = 1 ->
        RAdd[RAdd[RAdd[RAdd[RAdd[RMul[RMul[RMul[Vec8d(6), RMul[RMul[PA, PA], PA]], PB], one_over_2p], RMul[RMul[RMul[Vec8d(9), RMul[PA, PA]], RMul[PB, PB]], one_over_2p]], RMul[RMul[Vec8d(27), RMul[PA, PA]], RMul[one_over_2p, one_over_2p]]], RMul[RMul[RMul[Vec8d(54), PA], PB], RMul[one_over_2p, one_over_2p]]], RMul[RMul[Vec8d(9), RMul[PB, PB]], RMul[one_over_2p, one_over_2p]]], RMul[Vec8d(45), RMul[RMul[one_over_2p, one_over_2p], one_over_2p]]]
      [] a = 3 /\ b = 3 /\ tt = 2 ->
        RAdd[RAdd[RAdd[RAdd[RMul[RMul[Vec8d(3), RMul[RMul[PA, PA], PA]], RMul[one_over_2p, one_over_2p]], RMul[RMul[RMul[Vec8d(18), RMul[PA, PA]], PB], RMul[one_over_2p, one_over_2p]]], RMul[RMul[RMul[Vec8d(9), PA], RMul[PB, PB]], RMul[one_over_2p, one_over_2p]]], RMul[RMul[Vec8d(54), PA], RMul[RMul[one_over_2p, one_over_2p], one_over_2p]]], RMul[RMul[Vec8d(36), PB], RMul[RMul[one_over_2p, one_over_2p], one_over_2p]]]
      [] a = 3 /\ b = 3 /\ tt = 3 ->
        RAdd[RAdd[RAdd[RMul[RMul[Vec8d(9), RMul[PA, PA]], RMul[RMul[one_over_2p, one_over_2p], one_over_2p]], RMul[RMul[RMul[Vec8d(18), PA], PB], RMul[RMul[one_over_2p, one_over_2p], one_over_2p]]], RMul[RMul[Vec8d(3), RMul[PB, PB]], RMul[RMul[one_over_2p, one_over_2p], one_over_2p]]], RMul[Vec8d(30), RMul[RMul[one_over_2p, one_over_2p], RMul[one_over_2p, one_over_2p]]]]
      [] a = 3 /\ b = 3 /\ tt = 4 ->
        RAdd[RMul[RMul[Vec8d(9), PA], RMul[RMul[one_over_2p, one_over_2p], RMul[one_over_2p, one_over_2p]]], RMul[RMul[Vec8d(6), PB], RMul[RMul[one_over_2p, one_over_2p], RMul[one_over_2p, one_over_2p]]]]
      [] a = 3 /\ b = 3 /\ tt = 5 ->
        RMul[Vec8d(3), RMul[RMul[RMul[one_over_2p, one_over_2p], RMul[one_over_2p, one_over_2p]], one_over_2p]]
      [] a = 3 /\ b = 3 /\ tt = 6 ->
        Vec8d(0)
      [] a = 3 /\ b = 4 /\ tt = 0 ->
        RAdd[RAdd[RAdd[RAdd[RAdd[RAdd[RAdd[RMul[RMul[Vec8d(4), RMul[RMul[PA, PA], PA]], RMul[RMul[PB, PB], PB]], RMul[RMul[RMul[Vec8d(12), RMul[RMul[PA, PA], PA]], PB], one_over_2p]], RMul[RMul[RMul[Vec8d(36), RMul[PA, PA]], RMul[PB, PB]], one_over_2p]], RMul[RMul[Vec8d(36), RMul[PA, PA]], RMul[one_over_2p, one_over_2p]]], RMul[RMul[RMul[Vec8d(12), PA], RMul[RMul[PB, PB], PB]], one_over_2p]], RMul[RMul[RMul[Vec8d(108), PA], PB], RMul[one_over_2p, one_over_2p]]], RMul[RMul[Vec8d(36), RMul[PB, PB]], RMul[one_over_2p, one_over_2p]]], RMul[Vec8d(60), RMul[RMul[one_over_2p, one_over_2p], one_over_2p]]]
      [] a = 3 /\ b = 4 /\ tt = 1 ->
        RAdd[RAdd[RAdd[RAdd[RAdd[RAdd[RAdd[RMul[RMul[RMul[Vec8d(12), RMul[RMul[PA, PA], PA]], RMul[PB, PB]], one_over_2p], RMul[RMul[Vec8d(12), RMul[RMul[PA, PA], PA]], RMul[one_over_2p, one_over_2p]]], RMul[RMul[RMul[Vec8d(12), RMul[PA, PA]], RMul[RMul[PB, PB], PB]], one_over_2p]], RMul[RMul[RMul[Vec8d(108), RMul[PA, PA]], PB], RMul[one_over_2p, one_over_2p]]], RMul[RMul[RMul[Vec8d(108), PA], RMul[PB, PB]], RMul[one_over_2p, one_over_2p]]], RMul[RMul[Vec8d(180), PA], RMul[RMul[one_over_2p, one_over_2p], one_over_2p]]], RMul[RMul[Vec8d(12), RMul[RMul[PB, PB], PB]], RMul[one_over_2p, one_over_2p]]], RMul[RMul[Vec8d(180), PB], RMul[RMul[one_over_2p, one_over_2p], one_over_2p]]]
      [] a = 3 /\ b = 4 /\ tt = 2 ->
        RAdd[RAdd[RAdd[RAdd[RAdd[RAdd[RMul[RMul[RMul[Vec8d(12), RMul[RMul[PA, PA], PA]], PB], RMul[one_over_2p, one_over_2p]], RMul[RMul[RMul[Vec8d(36), RMul[PA, PA]], RMul[PB, PB]], RMul[one_over_2p, one_over_2p]]], RMul[RMul[Vec8d(72), RMul[PA, PA]], RMul[RMul[one_over_2p, one_over_2p], one_over_2p]]], RMul[RMul[RMul[Vec8d(12), PA], RMul[RMul[PB, PB], PB]], RMul[one_over_2p, one_over_2p]]], RMul[RMul[RMul[Vec8d(216), PA], PB], RMul[RMul[one_over_2p, one_over_2p], one_over_2p]]], RMul[RMul[Vec8d(72), RMul[PB, PB]], RMul[RMul[one_over_2p, one_over_2p], one_over_2p]]], RMul[Vec8d(180), RMul[RMul[one_over_2p, one_over_2p], RMul[one_over_2p, one_over_2p]]]]
      [] a = 3 /\ b = 4 /\ tt = 3 ->
        RAdd[RAdd[RAdd[RAdd[RAdd[RMul[RMul[Vec8d(4), RMul[RMul[PA, PA], PA]], RMul[RMul[one_over_2p, one_over_2p], one_over_2p]], RMul[RMul[RMul[Vec8d(36), RMul[PA, PA]], PB], RMul[RMul[one_over_2p, one_over_2p], one_over_2p]]], RMul[RMul[RMul[Vec8d(36), PA], RMul[PB, PB]], RMul[RMul[one_over_2p, one_over_2p], one_over_2p]]], RMul[RMul[Vec8d(120), PA], RMul[RMul[one_over_2p, one_over_2p], RMul[one_over_2p, one_over_2p]]]], RMul[RMul[Vec8d(4), RMul[RMul[PB, PB], PB]], RMul[RMul[one_over_2p, one_over_2p], one_over_2p]]], RMul[RMul[Vec8d(120), PB], RMul[RMul[one_over_2p, one_over_2p], RMul[one_over_2p, one_over_2p]]]]
      [] a = 3 /\ b = 4 /\ tt = 4 ->
        RAdd[RAdd[RAdd[RMul[RMul[Vec8d(12), RMul[PA, PA]], RMul[RMul[one_over_2p, one_over_2p], RMul[one_over_2p, one_over_2p]]], RMul[RMul[RMul[Vec8d(36), PA], PB], RMul[RMul[one_over_2p, one_over_2p], RMul[one_over_2p, one_over_2p]]]], RMul[RMul[Vec8d(12), RMul[PB, PB]], RMul[RMul[one_over_2p, one_over_2p], RMul[one_over_2p, one_over_2p]]]], RMul[Vec8d(60), RMul[RMul[RMul[one_over_2p, one_over_2p], RMul[one_over_2p, one_over_2p]], one_over_2p]]]
      [] a = 3 /\ b = 4 /\ tt = 5 ->
        RAdd[RMul[RMul[Vec8d(12), PA], RMul[RMul[RMul[one_over_2p, one_over_2p], RMul[one_over_2p, one_over_2p]], one_over_2p]], RMul[RMul[Vec8d(12), PB], RMul[RMul[RMul[one_over_2p, one_over_2p], RMul[one_over_2p, one_over_2p]], one_over_2p]]]
      [] a = 3 /\ b = 4 /\ tt = 6 ->
        RMul[Vec8d(4), RMul[RMul[RMul[one_over_2p, one_over_2p], one_over_2p], RMul[RMul[one_over_2p, one_over_2p], one_over_2p]]]
      [] a = 3 /\ b = 4 /\ tt = 7 ->
        Vec8d(0)
      [] a = 4 /\ b = 0 /\ tt = 0 ->
        Vec8d(0)
      [] a = 4 /\ b = 0 /\ tt = 1 ->
        Vec8d(0)
      [] a = 4 /\ b = 0 /\ tt = 2 ->
        Vec8d(0)
      [] a = 4 /\ b = 0 /\ tt = 3 ->
        Vec8d(0)
      [] a = 4 /\ b = 0 /\ tt = 4 ->
        Vec8d(0)
      [] a = 4 /\ b = 1 /\ tt = 0 ->
        RAdd[RAdd[RMul[RMul[PA, PA], RMul[PA, PA]], RMul[RMul[Vec8d(6), RMul[PA, PA]], one_over_2p]], RMul[Vec8d(3), RMul[one_over_2p, one_over_2p]]]
      [] a = 4 /\ b = 1 /\ tt = 1 ->
        RAdd[RMul[RMul[Vec8d(4), RMul[RMul[PA, PA], PA]], one_over_2p], RMul[RMul[Vec8d(12), PA], RMul[one_over_2p, one_over_2p]]]
      [] a = 4 /\ b = 1 /\ tt = 2 ->
        RAdd[RMul[RMul[Vec8d(6), RMul[PA, PA]], RMul[one_over_2p, one_over_2p]], RMul[Vec8d(6), RMul[RMul[one_over_2p, one_over_2p], one_over_2p]]]
      [] a = 4 /\ b = 1 /\ tt = 3 ->
        RMul[RMul[Vec8d(4), PA], RMul[RMul[one_over_2p, one_over_2p], one_over_2p]]
      [] a = 4 /\ b = 1 /\ tt = 4 ->
        RMul[RMul[one_over_2p, one_over_2p], RMul[one_over_2p, one_over_2p]]
      [] a = 4 /\ b = 1 /\ tt = 5 ->
        Vec8d(0)
      [] a = 4 /\ b = 2 /\ tt = 0 ->
        RAdd[RAdd[RAdd[RAdd[RMul[RMul[Vec8d(2), RMul[RMul[PA, PA], RMul[PA, PA]]], PB], RMul[RMul[Vec8d(8), RMul[RMul[PA, PA], PA]], one_over_2p]], RMul[RMul[RMul[Vec8d(12), RMul[PA, PA]], PB], one_over_2p]], RMul[RMul[Vec8d(24), PA], RMul[one_over_2p, one_over_2p]]], RMul[RMul[Vec8d(6), PB], RMul[one_over_2p, one_over_2p]]]
      [] a = 4 /\ b = 2 /\ tt = 1 ->
        RAdd[RAdd[RAdd[RAdd[RMul[RMul[Vec8d(2), RMul[RMul[PA, PA], RMul[PA, PA]]], one_over_2p], RMul[RMul[RMul[Vec8d(8), RMul[RMul[PA, PA], PA]], PB], one_over_2p]], RMul[RMul[Vec8d(36), RMul[PA, PA]], RMul[one_over_2p, one_over_2p]]], RMul[RMul[RMul[Vec8d(24), PA], PB], RMul[one_over_2p, one_over_2p]]], RMul[Vec8d(30), RMul[RMul[one_over_2p, one_over_2p], one_over_2p]]]
      [] a = 4 /\ b = 2 /\ tt = 2 ->
        RAdd[RAdd[RAdd[RMul[RMul[Vec8d(8), RMul[RMul[PA, PA], PA]], RMul[one_over_2p, one_over_2p]], RMul[RMul[RMul[Vec8d(12), RMul[PA, PA]], PB], RMul[one_over_2p, one_over_2p]]], RMul[RMul[Vec8d(48), PA], RMul[RMul[one_over_2p, one_over_2p], one_over_2p]]], RMul[RMul[Vec8d(12), PB], RMul[RMul[one_over_2p, one_over_2p], one_over_2p]]]
      [] a = 4 /\ b = 2 /\ tt = 3 ->
        RAdd[RAdd[RMul[RMul[Vec8d(12), RMul[PA, PA]], RMul[RMul[one_over_2p, one_over_2p], one_over_2p]], RMul[RMul[RMul[Vec8d(8), PA], PB], RMul[RMul[one_over_2p, one_over_2p], one_over_2p]]], RMul[Vec8d(20), RMul[RMul[one_over_2p, one_over_2p], RMul[one_over_2p, one_over_2p]]]]
      [] a = 4 /\ b = 2 /\ tt = 4 ->
        RAdd[RMul[RMul[Vec8d(8), PA], RMul[RMul[one_over_2p, one_over_2p], RMul[one_over_2p, one_over_2p]]], RMul[RMul[Vec8d(2), PB], RMul[RMul[one_over_2p, one_over_2p], RMul[one_over_2p, one_over_2p]]]]
      [] a = 4 /\ b = 2 /\ tt = 5 ->
        RMul[Vec8d(2), RMul[RMul[RMul[one_over_2p, one_over_2p], RMul[one_over_2p, one_over_2p]], one_over_2p]]
      [] a = 4 /\ b = 2 /\ tt = 6 ->
        Vec8d(0)
      [] a = 4 /\ b = 3 /\ tt = 0 ->
        RAdd[RAdd[RAdd[RAdd[RAdd[RAdd[RAdd[RMul[RMul[Vec8d(3), RMul[RMul[PA, PA], RMul[PA, PA]]], RMul[PB, PB]], RMul[RMul[Vec8d(3), RMul[RMul[PA, PA], RMul[PA, PA]]], one_over_2p]], RMul[RMul[RMul[Vec8d(24), RMul[RMul[PA, PA], PA]], PB], one_over_2p]], RMul[RMul[RMul[Vec8d(18), RMul[PA, PA]], RMul[PB, PB]], one_over_2p]], RMul[RMul[Vec8d(54), RMul[PA, PA]], RMul[one_over_2p, one_over_2p]]], RMul[RMul[RMul[Vec8d(72), PA], PB], RMul[one_over_2p, one_over_2p]]], RMul[RMul[Vec8d(9), RMul[PB, PB]], RMul[one_over_2p, one_over_2p]]], RMul[Vec8d(45), RMul[RMul[one_over_2p, one_over_2p], one_over_2p]]]
      [] a = 4 /\ b = 3 /\ tt = 1 ->
        RAdd[RAdd[RAdd[RAdd[RAdd[RAdd[RMul[RMul[RMul[Vec8d(6), RMul[RMul[PA, PA], RMul[PA, PA]]], PB], one_over_2p], RMul[RMul[RMul[Vec8d(12), RMul[RMul[PA, PA], PA]], RMul[PB, PB]], one_over_2p]], RMul[RMul[Vec8d(36), RMul[RMul[PA, PA], PA]], RMul[one_over_2p, one_over_2p]]], RMul[RMul[RMul[Vec8d(108), RMul[PA, PA]], PB], RMul[one_over_2p, one_over_2p]]], RMul[RMul[RMul[Vec8d(36), PA], RMul[PB, PB]], RMul[one_over_2p, one_over_2p]]], RMul[RMul[Vec8d(180), PA], RMul[RMul[one_over_2p, one_over_2p], one_over_2p]]], RMul[RMul[Vec8d(90), PB], RMul[RMul[one_over_2p, one_over_2p], one_over_2p]]]
      [] a = 4 /\ b = 3 /\ tt = 2 ->
        RAdd[RAdd[RAdd[RAdd[RAdd[RAdd[RMul[RMul[Vec8d(3), RMul[RMul[PA, PA], RMul[PA, PA]]], RMul[one_over_2p, one_over_2p]], RMul[RMul[RMul[Vec8d(24), RMul[RMul[PA, PA], PA]], PB], RMul[one_over_2p, one_over_2p]]], RMul[RMul[RMul[Vec8d(18), RMul[PA, PA]], RMul[PB, PB]], RMul[one_over_2p, one_over_2p]]], RMul[RMul[Vec8d(108), RMul[PA, PA]], RMul[RMul[one_over_2p, one_over_2p], one_over_2p]]], RMul[RMul[RMul[Vec8d(144), PA], PB], RMul[RMul[one_over_2p, one_over_2p], one_over_2p]]], RMul[RMul[Vec8d(18), RMul[PB, PB]], RMul[RMul[one_over_2p, one_over_2p], one_over_2p]]], RMul[Vec8d(135), RMul[RMul[one_over_2p, one_over_2p], RMul[one_over_2p, one_over_2p]]]]
      [] a = 4 /\ b = 3 /\ tt = 3 ->
        RAdd[RAdd[RAdd[RAdd[RMul[RMul[Vec8d(12), RMul[RMul[PA, PA], PA]], RMul[RMul[one_over_2p, one_over_2p], one_over_2p]], RMul[RMul[RMul[Vec8d(36), RMul[PA, PA]], PB], RMul[RMul[one_over_2p, one_over_2p], one_over_2p]]], RMul[RMul[RMul[Vec8d(12), PA], RMul[PB, PB]], RMul[RMul[one_over_2p, one_over_2p], one_over_2p]]], RMul[RMul[Vec8d(120), PA], RMul[RMul[one_over_2p, one_over_2p], RMul[one_over_2p, one_over_2p]]]], RMul[RMul[Vec8d(60), PB], RMul[RMul[one_over_2p, one_over_2p], RMul[one_over_2p, one_over_2p]]]]
      [] a = 4 /\ b = 3 /\ tt = 4 ->
        RAdd[RAdd[RAdd[RMul[RMul[Vec8d(18), RMul[PA, PA]], RMul[RMul[one_over_2p, one_over_2p], RMul[one_over_2p, one_over_2p]]], RMul[RMul[RMul[Vec8d(24), PA], PB], RMul[RMul[one_over_2p, one_over_2p], RMul[one_over_2p, one_over_2p]]]], RMul[RMul[Vec8d(3), RMul[PB, PB]], RMul[RMul[one_over_2p, one_over_2p], RMul[one_over_2p, one_over_2p]]]], RMul[Vec8d(45), RMul[RMul[RMul[one_over_2p, one_over_2p], RMul[one_over_2p, one_over_2p]], one_over_2p]]]
      [] a = 4 /\ b = 3 /\ tt = 5 ->
        RAdd[RMul[RMul[Vec8d(12), PA], RMul[RMul[RMul[one_over_2p, one_over_2p], RMul[one_over_2p, one_over_2p]], one_over_2p]], RMul[RMul[Vec8d(6), PB], RMul[RMul[RMul[one_over_2p, one_over_2p], RMul[one_over_2p, one_over_2p]], one_over_2p]]]
      [] a = 4 /\ b = 3 /\ tt = 6 ->
        RMul[Vec8d(3), RMul[RMul[RMul[one_over_2p, one_over_2p], one_over_2p], RMul[RMul[one_over_2p, one_over_2p], one_over_2p]]]
      [] a = 4 /\ b = 3 /\ tt = 7 ->
        Vec8d(0)
      [] a = 4 /\ b = 4 /\ tt = 0 ->
        RAdd[RAdd[RAdd[RAdd[RAdd[RAdd[RAdd[RAdd[RAdd[RMul[RMul[Vec8d(4), RMul[RMul[PA, PA], RMul[PA, PA]]], RMul[RMul[PB, PB], PB]], RMul[RMul[RMul[Vec8d(12), RMul[RMul[PA, PA], RMul[PA, PA]]], PB], one_over_2p]], RMul[RMul[RMul[Vec8d(48), RMul[RMul[PA, PA], PA]], RMul[PB, PB]], one_over_2p]], RMul[RMul[Vec8d(48), RMul[RMul[PA, PA], PA]], RMul[one_over_2p, one_over_2p]]], RMul[RMul[RMul[Vec8d(24), RMul[PA, PA]], RMul[RMul[PB, PB], PB]], one_over_2p]], RMul[RMul[RMul[Vec8d(216), RMul[PA, PA]], PB], RMul[one_over_2p, one_over_2p]]], RMul[RMul[RMul[Vec8d(144), PA], RMul[PB, PB]], RMul[one_over_2p, one_over_2p]]], RMul[RMul[Vec8d(240), PA], RMul[RMul[one_over_2p, one_over_2p], one_over_2p]]], RMul[RMul[Vec8d(12), RMul[RMul[PB, PB], PB]], RMul[one_over_2p, one_over_2p]]], RMul[RMul[Vec8d(180), PB], RMul[RMul[one_over_2p, one_over_2p], one_over_2p]]]
      [] a = 4 /\ b = 4 /\ tt = 1 ->
        RAdd[RAdd[RAdd[RAdd[RAdd[RAdd[RAdd[RAdd[RAdd[RMul[RMul[RMul[Vec8d(12), RMul[RMul[PA, PA], RMul[PA, PA]]], RMul[PB, PB]], one_over_2p], RMul[RMul[Vec8d(12), RMul[RMul[PA, PA], RMul[PA, PA]]], RMul[one_over_2p, one_over_2p]]], RMul[RMul[RMul[Vec8d(16), RMul[RMul[PA, PA], PA]], RMul[RMul[PB, PB], PB]], one_over_2p]], RMul[RMul[RMul[Vec8d(144), RMul[RMul[PA, PA], PA]], PB], RMul[one_over_2p, one_over_2p]]], RMul[RMul[RMul[Vec8d(216), RMul[PA, PA]], RMul[PB, PB]], RMul[one_over_2p, one_over_2p]]], RMul[RMul[Vec8d(360), RMul[PA, PA]], RMul[RMul[one_over_2p, one_over_2p], one_over_2p]]], RMul[RMul[RMul[Vec8d(48), PA], RMul[RMul[PB, PB], PB]], RMul[one_over_2p, one_over_2p]]], RMul[RMul[RMul[Vec8d(720), PA], PB], RMul[RMul[one_over_2p, one_over_2p], one_over_2p]]], RMul[RMul[Vec8d(180), RMul[PB, PB]], RMul[RMul[one_over_2p, one_over_2p], one_over_2p]]], RMul[Vec8d(420), RMul[RMul[one_over_2p, one_over_2p], RMul[one_over_2p, one_over_2p]]]]
      [] a = 4 /\ b = 4 /\ tt = 2 ->
        RAdd[RAdd[RAdd[RAdd[RAdd[RAdd[RAdd[RAdd[RMul[RMul[RMul[Vec8d(12), RMul[RMul[PA, PA], RMul[PA, PA]]], PB], RMul[one_over_2p, one_over_2p]], RMul[RMul[RMul[Vec8d(48), RMul[RMul[PA, PA], PA]], RMul[PB, PB]], RMul[one_over_2p, one_over_2p]]], RMul[RMul[Vec8d(96), RMul[RMul[PA, PA], PA]], RMul[RMul[one_over_2p, one_over_2p], one_over_2p]]], RMul[RMul[RMul[Vec8d(24), RMul[PA, PA]], RMul[RMul[PB, PB], PB]], RMul[one_over_2p, one_over_2p]]], RMul[RMul[RMul[Vec8d(432), RMul[PA, PA]], PB], RMul[RMul[one_over_2p, one_over_2p], one_over_2p]]], RMul[RMul[RMul[Vec8d(288), PA], RMul[PB, PB]], RMul[RMul[one_over_2p, one_over_2p], one_over_2p]]], RMul[RMul[Vec8d(720), PA], RMul[RMul[one_over_2p, one_over_2p], RMul[one_over_2p, one_over_2p]]]], RMul[RMul[Vec8d(24), RMul[RMul[PB, PB], PB]], RMul[RMul[one_over_2p, one_over_2p], one_over_2p]]], RMul[RMul[Vec8d(540), PB], RMul[RMul[one_over_2p, one_over_2p], RMul[one_over_2p, one_over_2p]]]]
      [] a = 4 /\ b = 4 /\ tt = 3 ->
        RAdd[RAdd[RAdd[RAdd[RAdd[RAdd[RAdd[RMul[RMul[Vec8d(4), RMul[RMul[PA, PA], RMul[PA, PA]]], RMul[RMul[one_over_2p, one_over_2p], one_over_2p]], RMul[RMul[RMul[Vec8d(48), RMul[RMul[PA, PA], PA]], PB], RMul[RMul[one_over_2p, one_over_2p], one_over_2p]]], RMul[RMul[RMul[Vec8d(72), RMul[PA, PA]], RMul[PB, PB]], RMul[RMul[one_over_2p, one_over_2p], one_over_2p]]], RMul[RMul[Vec8d(240), RMul[PA, PA]], RMul[RMul[one_over_2p, one_over_2p], RMul[one_over_2p, one_over_2p]]]], RMul[RMul[RMul[Vec8d(16), PA], RMul[RMul[PB, PB], PB]], RMul[RMul[one_over_2p, one_over_2p], one_over_2p]]], RMul[RMul[RMul[Vec8d(480), PA], PB], RMul[RMul[one_over_2p, one_over_2p], RMul[one_over_2p, one_over_2p]]]], RMul[RMul[Vec8d(120), RMul[PB, PB]], RMul[RMul[one_over_2p, one_over_2p], RMul[one_over_2p, one_over_2p]]]], RMul[Vec8d(420), RMul[RMul[RMul[one_over_2p, one_over_2p], RMul[one_over_2p, one_over_2p]], one_over_2p]]]
      [] a = 4 /\ b = 4 /\ tt = 4 ->
        RAdd[RAdd[RAdd[RAdd[RAdd[RMul[RMul[Vec8d(16), RMul[RMul[PA, PA], PA]], RMul[RMul[one_over_2p, one_over_2p], RMul[one_over_2p, one_over_2p]]], RMul[RMul[RMul[Vec8d(72), RMul[PA, PA]], PB], RMul[RMul[one_over_2p, one_over_2p], RMul[one_over_2p, one_over_2p]]]], RMul[RMul[RMul[Vec8d(48), PA], RMul[PB, PB]], RMul[RMul[one_over_2p, one_over_2p], RMul[one_over_2p, one_over_2p]]]], RMul[RMul[Vec8d(240), PA], RMul[RMul[RMul[one_over_2p, one_over_2p], RMul[one_over_2p, one_over_2p]], one_over_2p]]], RMul[RMul[Vec8d(4), RMul[RMul[PB, PB], PB]], RMul[RMul[one_over_2p, one_over_2p], RMul[one_over_2p, one_over_2p]]]], RMul[RMul[Vec8d(180), PB], RMul[RMul[RMul[one_over_2p, one_over_2p], RMul[one_over_2p, one_over_2p]], one_over_2p]]]
      [] a = 4 /\ b = 4 /\ tt = 5 ->
        RAdd[RAdd[RAdd[RMul[RMul[Vec8d(24), RMul[PA, PA]], RMul[RMul[RMul[one_over_2p, one_over_2p], RMul[one_over_2p, one_over_2p]], one_over_2p]], RMul[RMul[RMul[Vec8d(48), PA], PB], RMul[RMul[RMul[one_over_2p, one_over_2p], RMul[one_over_2p, one_over_2p]], one_over_2p]]], RMul[RMul[Vec8d(12), RMul[PB, PB]], RMul[RMul[RMul[one_over_2p, one_over_2p], RMul[one_over_2p, one_over_2p]], one_over_2p]]], RMul[Vec8d(84), RMul[RMul[RMul[one_over_2p, one_over_2p], one_over_2p], RMul[RMul[one_over_2p, one_over_2p], one_over_2p]]]]
      [] a = 4 /\ b = 4 /\ tt = 6 ->
        RAdd[RMul[RMul[Vec8d(16), PA], RMul[RMul[RMul[one_over_2p, one_over_2p], one_over_2p], RMul[RMul[one_over_2p, one_over_2p], one_over_2p]]], RMul[RMul[Vec8d(12), PB], RMul[RMul[RMul[one_over_2p, one_over_2p], one_over_2p], RMul[RMul[one_over_2p, one_over_2p], one_over_2p]]]]
      [] a = 4 /\ b = 4 /\ tt = 7 ->
        RMul[Vec8d(4), RMul[RMul[RMul[RMul[one_over_2p, one_over_2p], one_over_2p], RMul[RMul[one_over_2p, one_over_2p], one_over_2p]], one_over_2p]]
      [] a = 4 /\ b = 4 /\ tt = 8 ->
        Vec8d(0)

InitG ==
    /\ gpc = "idle"
    /\ gReq = [nA |-> 0, nB |-> 0, t |-> 0, g |-> UnitGeom]
    /\ dE_dA = Zero /\ dE_dB = Zero
    /\ dE_dPA = Zero /\ dE_dPB = Zero
    /\ sym_dPA = Zero /\ sym_dPB = Zero

\* a caller picks (nA, nB, t) with t <= nA + nB and a geometry
GCall ==
    /\ Idle
    /\ \E a \in 0..BENCH_MAX_L, b \in 0..BENCH_MAX_L, g \in GeomSet :
         \E tt \in 0..(a + b) :
           gReq' = [nA |-> a, nB |-> b, t |-> tt, g |-> g]
    /\ gpc' = "A"
    /\ UNCHANGED <<dE_dA, dE_dB, dE_dPA, dE_dPB, sym_dPA, sym_dPB>>
    /\ UNCHANGED <<varsR, varsE, varsX, varsB, varsU, varsM, calls>>

\* hermite_deriv_A<nA,nB,t>(PA, PB, p, alpha_A, alpha_B)
GDerivA ==
    /\ gpc = "A"
    /\ dE_dA' = HermiteDerivA(gReq.nA, gReq.nB, gReq.t, gReq.g.PA, gReq.g.PB,
                              gReq.g.p, gReq.g.alpha_A, gReq.g.alpha_B)
    /\ gpc' = "B"
    /\ UNCHANGED <<gReq, dE_dB, dE_dPA, dE_dPB, sym_dPA, sym_dPB>>
    /\ UNCHANGED <<varsR, varsE, varsX, varsB, varsU, varsM, calls>>

\* hermite_deriv_B<nA,nB,t>(PA, PB, p, alpha_A, alpha_B)
GDerivB ==
    /\ gpc = "B"
    /\ dE_dB' = HermiteDerivB(gReq.nA, gReq.nB, gReq.t, gReq.g.PA, gReq.g.PB,
                              gReq.g.p, gReq.g.alpha_A, gReq.g.alpha_B)
    /\ gpc' = "PA"
    /\ UNCHANGED <<gReq, dE_dA, dE_dPA, dE_dPB, sym_dPA, sym_dPB>>
    /\ UNCHANGED <<varsR, varsE, varsX, varsB, varsU, varsM, calls>>

\* hermite_deriv_PA<nA,nB,t>(PA, PB, p)
GDerivPA ==
    /\ gpc = "PA"
    /\ dE_dPA' = HermiteDerivPA(gReq.nA, gReq.nB, gReq.t, gReq.g.PA, gReq.g.PB, gReq.g.p)
    /\ gpc' = "PB"
    /\ UNCHANGED <<gReq, dE_dA, dE_dB, dE_dPB, sym_dPA, sym_dPB>>
    /\ UNCHANGED <<varsR, varsE, varsX, varsB, varsU, varsM, calls>>

\* hermite_deriv_PB<nA,nB,t>(PA, PB, p)
GDerivPB ==
    /\ gpc = "PB"
    /\ dE_dPB' = HermiteDerivPB(gReq.nA, gReq.nB, gReq.t, gReq.g.PA, gReq.g.PB, gReq.g.p)
    /\ gpc' = "symPA"
    /\ UNCHANGED <<gReq, dE_dA, dE_dB, dE_dPA, sym_dPA, sym_dPB>>
    /\ UNCHANGED <<varsR, varsE, varsX, varsB, varsU, varsM, calls>>

\* hermite_dE_dPA_nA_nB_t(PA, PB, one_over_2p)
GSymPA ==
    /\ gpc = "symPA"
    /\ sym_dPA' = hermite_dE_dPA(gReq.nA, gReq.nB, gReq.t, gReq.g.PA, gReq.g.PB,
                                 OneOver2p(gReq.g.p))
    /\ gpc' = "symPB"
    /\ UNCHANGED <<gReq, dE_dA, dE_dB, dE_dPA, dE_dPB, sym_dPB>>
    /\ UNCHANGED <<varsR, varsE, varsX, varsB, varsU, varsM, calls>>

\* hermite_dE_dPB_nA_nB_t(PA, PB, one_over_2p)
GSymPB ==
    /\ gpc = "symPB"
    /\ sym_dPB' = hermite_dE_dPB(gReq.nA, gReq.nB, gReq.t, gReq.g.PA, gReq.g.PB,
                                 OneOver2p(gReq.g.p))
    /\ gpc' = "done"
    /\ UNCHANGED <<gReq, dE_dA, dE_dB, dE_dPA, dE_dPB, sym_dPA>>
    /\ UNCHANGED <<varsR, varsE, varsX, varsB, varsU, varsM, calls>>

\* ------------------------------------------------------------------------
\* Enumeration of the index space of a shell: r_index applied to every
\* (t,u,v) with t+u+v <= L, in the loop order of the validation program
\* ------------------------------------------------------------------------
InitX ==
    /\ xpc = "idle"
    /\ xL = 0
    /\ xt = 0 /\ xu = 0 /\ xv = 0
    /\ idx = 0
    /\ offsets = {}
    /\ xlast = [w |-> <<0, 0, 0>>, o |-> 0]

\* int idx = 0; t = 0, u = 0, v = 0 for a total degree L <= MAX_R_L
XStart ==
    /\ Idle
    /\ \E L \in 0..MAX_R_L : xL' = L
    /\ xt' = 0 /\ xu' = 0 /\ xv' = 0
    /\ idx' = 0
    /\ offsets' = {}
    /\ xpc' = "loop"
    /\ UNCHANGED xlast
    /\ UNCHANGED <<varsR, varsE, varsG, varsB, varsU, varsM, calls>>

\* one iteration of the (t, u, v) loop nest: the offset of R[r_index(t, u, v)]
XStep ==
    /\ xpc = "loop"
    /\ offsets' = offsets \cup {r_index(xt, xu, xv)}
    /\ xlast' = [w |-> <<xt, xu, xv>>, o |-> r_index(xt, xu, xv)]
    /\ idx' = idx + 1
    /\ IF xv + 1 <= xL - xt - xu
         THEN /\ xv' = xv + 1
              /\ UNCHANGED <<xt, xu, xpc>>
         ELSE IF xu + 1 <= xL - xt
           THEN /\ xu' = xu + 1
                /\ xv' = 0
                /\ UNCHANGED <<xt, xpc>>
           ELSE IF xt + 1 <= xL
             THEN /\ xt' = xt + 1
                  /\ xu' = 0
                  /\ xv' = 0
                  /\ UNCHANGED xpc
             ELSE /\ xpc' = "done"
                  /\ UNCHANGED <<xt, xu, xv>>
    /\ UNCHANGED xL
    /\ UNCHANGED <<varsR, varsE, varsG, varsB, varsU, varsM, calls>>

\* ------------------------------------------------------------------------
\* Direct calls: hermite_e<nA,nB,t> (hermite_e.hpp), coulomb_r<t,u,v,N>
\* (coulomb_aux.hpp) and the generated closed forms (hermite_e_symbolic.hpp)
\* ------------------------------------------------------------------------
\* the generated functions hermite_e_symbolic_nA_nB_t(PA, PB, one_over_2p)
hermite_e_symbolic(a, b, tt, PA, PB, one_over_2p) ==
    CASE a = 0 /\ b = 0 /\ tt = 0 ->
        Vec8d(1)
      [] a = 0 /\ b = 1 /\ tt = 0 ->
        PB
      [] a = 0 /\ b = 1 /\ tt = 1 ->
        one_over_2p
      [] a = 0 /\ b = 2 /\ tt = 0 ->
        RAdd[RMul[PB, PB], one_over_2p]
      [] a = 0 /\ b = 2 /\ tt = 1 ->
        RMul[RMul[Vec8d(2), PB], one_over_2p]
      [] a = 0 /\ b = 2 /\ tt = 2 ->
        RMul[one_over_2p, one_over_2p]
      [] a = 0 /\ b = 3 /\ tt = 0 ->
        RAdd[RMul[RMul[PB, PB], PB], RMul[RMul[Vec8d(3), PB], one_over_2p]]
      [] a = 0 /\ b = 3 /\ tt = 1 ->
        RAdd[RMul[RMul[Vec8d(3), RMul[PB, PB]], one_over_2p], RMul[Vec8d(3), RMul[one_over_2p, one_over_2p]]]
      [] a = 0 /\ b = 3 /\ tt = 2 ->
        RMul[RMul[Vec8d(3), PB], RMul[one_over_2p, one_over_2p]]
      [] a = 0 /\ b = 3 /\ tt = 3 ->
        RMul[RMul[one_over_2p, one_over_2p], one_over_2p]
      [] a = 0 /\ b = 4 /\ tt = 0 ->
        RAdd[RAdd[RMul[RMul[PB, PB], RMul[PB, PB]], RMul[RMul[Vec8d(6), RMul[PB, PB]], one_over_2p]], RMul[Vec8d(3), RMul[one_over_2p, one_over_2p]]]
      [] a = 0 /\ b = 4 /\ tt = 1 ->
        RAdd[RMul[RMul[Vec8d(4), RMul[RMul[PB, PB], PB]], one_over_2p], RMul[RMul[Vec8d(12), PB], RMul[one_over_2p, one_over_2p]]]
      [] a = 0 /\ b = 4 /\ tt = 2 ->
        RAdd[RMul[RMul[Vec8d(6), RMul[PB, PB]], RMul[one_over_2p, one_over_2p]], RMul[Vec8d(6), RMul[RMul[one_over_2p, one_over_2p], one_over_2p]]]
      [] a = 0 /\ b = 4 /\ tt = 3 ->
        RMul[RMul[Vec8d(4), PB], RMul[RMul[one_over_2p, one_over_2p], one_over_2p]]
      [] a = 0 /\ b = 4 /\ tt = 4 ->
        RMul[RMul[one_over_2p, one_over_2p], RMul[one_over_2p, one_over_2p]]
      [] a = 1 /\ b = 0 /\ tt = 0 ->
        PA
      [] a = 1 /\ b = 0 /\ tt = 1 ->
        one_over_2p
      [] a = 1 /\ b = 1 /\ tt = 0 ->
        RAdd[RMul[PA, PB], one_over_2p]
      [] a = 1 /\ b = 1 /\ tt = 1 ->
        RAdd[RMul[PA, one_over_2p], RMul[PB, one_over_2p]]
      [] a = 1 /\ b = 1 /\ tt = 2 ->
        RMul[one_over_2p, one_over_2p]
      [] a = 1 /\ b = 2 /\ tt = 0 ->
        RAdd[RAdd[RMul[PA, RMul[PB, PB]], RMul[PA, one_over_2p]], RMul[RMul[Vec8d(2), PB], one_over_2p]]
      [] a = 1 /\ b = 2 /\ tt = 1 ->
        RAdd[RAdd[RMul[RMul[RMul[Vec8d(2), PA], PB], one_over_2p], RMul[RMul[PB, PB], one_over_2p]], RMul[Vec8d(3), RMul[one_over_2p, one_over_2p]]]
      [] a = 1 /\ b = 2 /\ tt = 2 ->
        RAdd[RMul[PA, RMul[one_over_2p, one_over_2p]], RMul[RMul[Vec8d(2), PB], RMul[one_over_2p, one_over_2p]]]
      [] a = 1 /\ b = 2 /\ tt = 3 ->
        RMul[RMul[one_over_2p, one_over_2p], one_over_2p]
      [] a = 1 /\ b = 3 /\ tt = 0 ->
        RAdd[RAdd[RAdd[RMul[PA, RMul[RMul[PB, PB], PB]], RMul[RMul[RMul[Vec8d(3), PA], PB], one_over_2p]], RMul[RMul[Vec8d(3), RMul[PB, PB]], one_over_2p]], RMul[Vec8d(3), RMul[one_over_2p, one_over_2p]]]
      [] a = 1 /\ b = 3 /\ tt = 1 ->
        RAdd[RAdd[RAdd[RMul[RMul[RMul[Vec8d(3), PA], RMul[PB, PB]], one_over_2p], RMul[RMul[Vec8d(3), PA], RMul[one_over_2p, one_over_2p]]], RMul[RMul[RMul[PB, PB], PB], one_over_2p]], RMul[RMul[Vec8d(9), PB], RMul[one_over_2p, one_over_2p]]]
      [] a = 1 /\ b = 3 /\ tt = 2 ->
        RAdd[RAdd[RMul[RMul[RMul[Vec8d(3), PA], PB], RMul[one_over_2p, one_over_2p]], RMul[RMul[Vec8d(3), RMul[PB, PB]], RMul[one_over_2p, one_over_2p]]], RMul[Vec8d(6), RMul[RMul[one_over_2p, one_over_2p], one_over_2p]]]
      [] a = 1 /\ b = 3 /\ tt = 3 ->
        RAdd[RMul[PA, RMul[RMul[one_over_2p, one_over_2p], one_over_2p]], RMul[RMul[Vec8d(3), PB], RMul[RMul[one_over_2p, one_over_2p], one_over_2p]]]
      [] a = 1 /\ b = 3 /\ tt = 4 ->
        RMul[RMul[one_over_2p, one_over_2p], RMul[one_over_2p, one_over_2p]]
      [] a = 1 /\ b = 4 /\ tt = 0 ->
        RAdd[RAdd[RAdd[RAdd[RMul[PA, RMul[RMul[PB, PB], RMul[PB, PB]]], RMul[RMul[RMul[Vec8d(6), PA], RMul[PB, PB]], one_over_2p]], RMul[RMul[Vec8d(3), PA], RMul[one_over_2p, one_over_2p]]], RMul[RMul[Vec8d(4), RMul[RMul[PB, PB], PB]], one_over_2p]], RMul[RMul[Vec8d(12), PB], RMul[one_over_2p, one_over_2p]]]
      [] a = 1 /\ b = 4 /\ tt = 1 ->
        RAdd[RAdd[RAdd[RAdd[RMul[RMul[RMul[Vec8d(4), PA], RMul[RMul[PB, PB], PB]], one_over_2p], RMul[RMul[RMul[Vec8d(12), PA], PB], RMul[one_over_2p, one_over_2p]]], RMul[RMul[RMul[PB, PB], RMul[PB, PB]], one_over_2p]], RMul[RMul[Vec8d(18), RMul[PB, PB]], RMul[one_over_2p, one_over_2p]]], RMul[Vec8d(15), RMul[RMul[one_over_2p, one_over_2p], one_over_2p]]]
      [] a = 1 /\ b = 4 /\ tt = 2 ->
        RAdd[RAdd[RAdd[RMul[RMul[RMul[Vec8d(6), PA], RMul[PB, PB]], RMul[one_over_2p, one_over_2p]], RMul[RMul[Vec8d(6), PA], RMul[RMul[one_over_2p, one_over_2p], one_over_2p]]], RMul[RMul[Vec8d(4), RMul[RMul[PB, PB], PB]], RMul[one_over_2p, one_over_2p]]], RMul[RMul[Vec8d(24), PB], RMul[RMul[one_over_2p, one_over_2p], one_over_2p]]]
      [] a = 1 /\ b = 4 /\ tt = 3 ->
        RAdd[RAdd[RMul[RMul[RMul[Vec8d(4), PA], PB], RMul[RMul[one_over_2p, one_over_2p], one_over_2p]], RMul[RMul[Vec8d(6), RMul[PB, PB]], RMul[RMul[one_over_2p, one_over_2p], one_over_2p]]], RMul[Vec8d(10), RMul[RMul[one_over_2p, one_over_2p], RMul[one_over_2p, one_over_2p]]]]
      [] a = 1 /\ b = 4 /\ tt = 4 ->
        RAdd[RMul[PA, RMul[RMul[one_over_2p, one_over_2p], RMul[one_over_2p, one_over_2p]]], RMul[RMul[Vec8d(4), PB], RMul[RMul[one_over_2p, one_over_2p], RMul[one_over_2p, one_over_2p]]]]
      [] a = 1 /\ b = 4 /\ tt = 5 ->
        RMul[RMul[RMul[one_over_2p, one_over_2p], RMul[one_over_2p, one_over_2p]], one_over_2p]
      [] a = 2 /\ b = 0 /\ tt = 0 ->
        RAdd[RMul[PA, PA], one_over_2p]
      [] a = 2 /\ b = 0 /\ tt = 1 ->
        RMul[RMul[Vec8d(2), PA], one_over_2p]
      [] a = 2 /\ b = 0 /\ tt = 2 ->
        RMul[one_over_2p, one_over_2p]
      [] a = 2 /\ b = 1 /\ tt = 0 ->
        RAdd[RAdd[RMul[RMul[PA, PA], PB], RMul[RMul[Vec8d(2), PA], one_over_2p]], RMul[PB, one_over_2p]]
      [] a = 2 /\ b = 1 /\ tt = 1 ->
        RAdd[RAdd[RMul[RMul[PA, PA], one_over_2p], RMul[RMul[RMul[Vec8d(2), PA], PB], one_over_2p]], RMul[Vec8d(3), RMul[one_over_2p, one_over_2p]]]
      [] a = 2 /\ b = 1 /\ tt = 2 ->
        RAdd[RMul[RMul[Vec8d(2), PA], RMul[one_over_2p, one_over_2p]], RMul[PB, RMul[one_over_2p, one_over_2p]]]
      [] a = 2 /\ b = 1 /\ tt = 3 ->
        RMul[RMul[one_over_2p, one_over_2p], one_over_2p]
      [] a = 2 /\ b = 2 /\ tt = 0 ->
        RAdd[RAdd[RAdd[RAdd[RMul[RMul[PA, PA], RMul[PB, PB]], RMul[RMul[PA, PA], one_over_2p]], RMul[RMul[RMul[Vec8d(4), PA], PB], one_over_2p]], RMul[RMul[PB, PB], one_over_2p]], RMul[Vec8d(3), RMul[one_over_2p, one_over_2p]]]
      [] a = 2 /\ b = 2 /\ tt = 1 ->
        RAdd[RAdd[RAdd[RMul[RMul[RMul[Vec8d(2), RMul[PA, PA]], PB], one_over_2p], RMul[RMul[RMul[Vec8d(2), PA], RMul[PB, PB]], one_over_2p]], RMul[RMul[Vec8d(6), PA], RMul[one_over_2p, one_over_2p]]], RMul[RMul[Vec8d(6), PB], RMul[one_over_2p, one_over_2p]]]
      [] a = 2 /\ b = 2 /\ tt = 2 ->
        RAdd[RAdd[RAdd[RMul[RMul[PA, PA], RMul[one_over_2p, one_over_2p]], RMul[RMul[RMul[Vec8d(4), PA], PB], RMul[one_over_2p, one_over_2p]]], RMul[RMul[PB, PB], RMul[one_over_2p, one_over_2p]]], RMul[Vec8d(6), RMul[RMul[one_over_2p, one_over_2p], one_over_2p]]]
      [] a = 2 /\ b = 2 /\ tt = 3 ->
        RAdd[RMul[RMul[Vec8d(2), PA], RMul[RMul[one_over_2p, one_over_2p], one_over_2p]], RMul[RMul[Vec8d(2), PB], RMul[RMul[one_over_2p, one_over_2p], one_over_2p]]]
      [] a = 2 /\ b = 2 /\ tt = 4 ->
        RMul[RMul[one_over_2p, one_over_2p], RMul[one_over_2p, one_over_2p]]
      [] a = 2 /\ b = 3 /\ tt = 0 ->
        RAdd[RAdd[RAdd[RAdd[RAdd[RMul[RMul[PA, PA], RMul[RMul[PB, PB], PB]], RMul[RMul[RMul[Vec8d(3), RMul[PA, PA]], PB], one_over_2p]], RMul[RMul[RMul[Vec8d(6), PA], RMul[PB, PB]], one_over_2p]], RMul[RMul[Vec8d(6), PA], RMul[one_over_2p, one_over_2p]]], RMul[RMul[RMul[PB, PB], PB], one_over_2p]], RMul[RMul[Vec8d(9), PB], RMul[one_over_2p, one_over_2p]]]
      [] a = 2 /\ b = 3 /\ tt = 1 ->
        RAdd[RAdd[RAdd[RAdd[RAdd[RMul[RMul[RMul[Vec8d(3), RMul[PA, PA]], RMul[PB, PB]], one_over_2p], RMul[RMul[Vec8d(3), RMul[PA, PA]], RMul[one_over_2p, one_over_2p]]], RMul[RMul[RMul[Vec8d(2), PA], RMul[RMul[PB, PB], PB]], one_over_2p]], RMul[RMul[RMul[Vec8d(18), PA], PB], RMul[one_over_2p, one_over_2p]]], RMul[RMul[Vec8d(9), RMul[PB, PB]], RMul[one_over_2p, one_over_2p]]], RMul[Vec8d(15), RMul[RMul[one_over_2p, one_over_2p], one_over_2p]]]
      [] a = 2 /\ b = 3 /\ tt = 2 ->
        RAdd[RAdd[RAdd[RAdd[RMul[RMul[RMul[Vec8d(3), RMul[PA, PA]], PB], RMul[one_over_2p, one_over_2p]], RMul[RMul[RMul[Vec8d(6), PA], RMul[PB, PB]], RMul[one_over_2p, one_over_2p]]], RMul[RMul[Vec8d(12), PA], RMul[RMul[one_over_2p, one_over_2p], one_over_2p]]], RMul[RMul[RMul[PB, PB], PB], RMul[one_over_2p, one_over_2p]]], RMul[RMul[Vec8d(18), PB], RMul[RMul[one_over_2p, one_over_2p], one_over_2p]]]
      [] a = 2 /\ b = 3 /\ tt = 3 ->
        RAdd[RAdd[RAdd[RMul[RMul[PA, PA], RMul[RMul[one_over_2p, one_over_2p], one_over_2p]], RMul[RMul[RMul[Vec8d(6), PA], PB], RMul[RMul[one_over_2p, one_over_2p], one_over_2p]]], RMul[RMul[Vec8d(3), RMul[PB, PB]], RMul[RMul[one_over_2p, one_over_2p], one_over_2p]]], RMul[Vec8d(10), RMul[RMul[one_over_2p, one_over_2p], RMul[one_over_2p, one_over_2p]]]]
      [] a = 2 /\ b = 3 /\ tt = 4 ->
        RAdd[RMul[RMul[Vec8d(2), PA], RMul[RMul[one_over_2p, one_over_2p], RMul[one_over_2p, one_over_2p]]], RMul[RMul[Vec8d(3), PB], RMul[RMul[one_over_2p, one_over_2p], RMul[one_over_2p, one_over_2p]]]]
      [] a = 2 /\ b = 3 /\ tt = 5 ->
        RMul[RMul[RMul[one_over_2p, one_over_2p], RMul[one_over_2p, one_over_2p]], one_over_2p]
      [] a = 2 /\ b = 4 /\ tt = 0 ->
        RAdd[RAdd[RAdd[RAdd[RAdd[RAdd[RAdd[RMul[RMul[PA, PA], RMul[RMul[PB, PB], RMul[PB, PB]]], RMul[RMul[RMul[Vec8d(6), RMul[PA, PA]], RMul[PB, PB]], one_over_2p]], RMul[RMul[Vec8d(3), RMul[PA, PA]], RMul[one_over_2p, one_over_2p]]], RMul[RMul[RMul[Vec8d(8), PA], RMul[RMul[PB, PB], PB]], one_over_2p]], RMul[RMul[RMul[Vec8d(24), PA], PB], RMul[one_over_2p, one_over_2p]]], RMul[RMul[RMul[PB, PB], RMul[PB, PB]], one_over_2p]], RMul[RMul[Vec8d(18), RMul[PB, PB]], RMul[one_over_2p, one_over_2p]]], RMul[Vec8d(15), RMul[RMul[one_over_2p, one_over_2p], one_over_2p]]]
      [] a = 2 /\ b = 4 /\ tt = 1 ->
        RAdd[RAdd[RAdd[RAdd[RAdd[RAdd[RMul[RMul[RMul[Vec8d(4), RMul[PA, PA]], RMul[RMul[PB, PB], PB]], one_over_2p], RMul[RMul[RMul[Vec8d(12), RMul[PA, PA]], PB], RMul[one_over_2p, one_over_2p]]], RMul[RMul[RMul[Vec8d(2), PA], RMul[RMul[PB, PB], RMul[PB, PB]]], one_over_2p]], RMul[RMul[RMul[Vec8d(36), PA], RMul[PB, PB]], RMul[one_over_2p, one_over_2p]]], RMul[RMul[Vec8d(30), PA], RMul[RMul[one_over_2p, one_over_2p], one_over_2p]]], RMul[RMul[Vec8d(12), RMul[RMul[PB, PB], PB]], RMul[one_over_2p, one_over_2p]]], RMul[RMul[Vec8d(60), PB], RMul[RMul[one_over_2p, one_over_2p], one_over_2p]]]
      [] a = 2 /\ b = 4 /\ tt = 2 ->
        RAdd[RAdd[RAdd[RAdd[RAdd[RAdd[RMul[RMul[RMul[Vec8d(6), RMul[PA, PA]], RMul[PB, PB]], RMul[one_over_2p, one_over_2p]], RMul[RMul[Vec8d(6), RMul[PA, PA]], RMul[RMul[one_over_2p, one_over_2p], one_over_2p]]], RMul[RMul[RMul[Vec8d(8), PA], RMul[RMul[PB, PB], PB]], RMul[one_over_2p, one_over_2p]]], RMul[RMul[RMul[Vec8d(48), PA], PB], RMul[RMul[one_over_2p, one_over_2p], one_over_2p]]], RMul[RMul[RMul[PB, PB], RMul[PB, PB]], RMul[one_over_2p, one_over_2p]]], RMul[RMul[Vec8d(36), RMul[PB, PB]], RMul[RMul[one_over_2p, one_over_2p], one_over_2p]]], RMul[Vec8d(45), RMul[RMul[one_over_2p, one_over_2p], RMul[one_over_2p, one_over_2p]]]]
      [] a = 2 /\ b = 4 /\ tt = 3 ->
        RAdd[RAdd[RAdd[RAdd[RMul[RMul[RMul[Vec8d(4), RMul[PA, PA]], PB], RMul[RMul[one_over_2p, one_over_2p], one_over_2p]], RMul[RMul[RMul[Vec8d(12), PA], RMul[PB, PB]], RMul[RMul[one_over_2p, one_over_2p], one_over_2p]]], RMul[RMul[Vec8d(20), PA], RMul[RMul[one_over_2p, one_over_2p], RMul[one_over_2p, one_over_2p]]]], RMul[RMul[Vec8d(4), RMul[RMul[PB, PB], PB]], RMul[RMul[one_over_2p, one_over_2p], one_over_2p]]], RMul[RMul[Vec8d(40), PB], RMul[RMul[one_over_2p, one_over_2p], RMul[one_over_2p, one_over_2p]]]]
      [] a = 2 /\ b = 4 /\ tt = 4 ->
        RAdd[RAdd[RAdd[RMul[RMul[PA, PA], RMul[RMul[one_over_2p, one_over_2p], RMul[one_over_2p, one_over_2p]]], RMul[RMul[RMul[Vec8d(8), PA], PB], RMul[RMul[one_over_2p, one_over_2p], RMul[one_over_2p, one_over_2p]]]], RMul[RMul[Vec8d(6), RMul[PB, PB]], RMul[RMul[one_over_2p, one_over_2p], RMul[one_over_2p, one_over_2p]]]], RMul[Vec8d(15), RMul[RMul[RMul[one_over_2p, one_over_2p], RMul[one_over_2p, one_over_2p]], one_over_2p]]]
      [] a = 2 /\ b = 4 /\ tt = 5 ->
        RAdd[RMul[RMul[Vec8d(2), PA], RMul[RMul[RMul[one_over_2p, one_over_2p], RMul[one_over_2p, one_over_2p]], one_over_2p]], RMul[RMul[Vec8d(4), PB], RMul[RMul[RMul[one_over_2p, one_over_2p], RMul[one_over_2p, one_over_2p]], one_over_2p]]]
      [] a = 2 /\ b = 4 /\ tt = 6 ->
        RMul[RMul[RMul[one_over_2p, one_over_2p], one_over_2p], RMul[RMul[one_over_2p, one_over_2p], one_over_2p]]
      [] a = 3 /\ b = 0 /\ tt = 0 ->
        RAdd[RMul[RMul[PA, PA], PA], RMul[RMul[Vec8d(3), PA], one_over_2p]]
      [] a = 3 /\ b = 0 /\ tt = 1 ->
        RAdd[RMul[RMul[Vec8d(3), RMul[PA, PA]], one_over_2p], RMul[Vec8d(3), RMul[one_over_2p, one_over_2p]]]
      [] a = 3 /\ b = 0 /\ tt = 2 ->
        RMul[RMul[Vec8d(3), PA], RMul[one_over_2p, one_over_2p]]
      [] a = 3 /\ b = 0 /\ tt = 3 ->
        RMul[RMul[one_over_2p, one_over_2p], one_over_2p]
      [] a = 3 /\ b = 1 /\ tt = 0 ->
        RAdd[RAdd[RAdd[RMul[RMul[RMul[PA, PA], PA], PB], RMul[RMul[Vec8d(3), RMul[PA, PA]], one_over_2p]], RMul[RMul[RMul[Vec8d(3), PA], PB], one_over_2p]], RMul[Vec8d(3), RMul[one_over_2p, one_over_2p]]]
      [] a = 3 /\ b = 1 /\ tt = 1 ->
        RAdd[RAdd[RAdd[RMul[RMul[RMul[PA, PA], PA], one_over_2p], RMul[RMul[RMul[Vec8d(3), RMul[PA, PA]], PB], one_over_2p]], RMul[RMul[Vec8d(9), PA], RMul[one_over_2p, one_over_2p]]], RMul[RMul[Vec8d(3), PB], RMul[one_over_2p, one_over_2p]]]
      [] a = 3 /\ b = 1 /\ tt = 2 ->
        RAdd[RAdd[RMul[RMul[Vec8d(3), RMul[PA, PA]], RMul[one_over_2p, one_over_2p]], RMul[RMul[RMul[Vec8d(3), PA], PB], RMul[one_over_2p, one_over_2p]]], RMul[Vec8d(6), RMul[RMul[one_over_2p, one_over_2p], one_over_2p]]]
      [] a = 3 /\ b = 1 /\ tt = 3 ->
        RAdd[RMul[RMul[Vec8d(3), PA], RMul[RMul[one_over_2p, one_over_2p], one_over_2p]], RMul[PB, RMul[RMul[one_over_2p, one_over_2p], one_over_2p]]]
      [] a = 3 /\ b = 1 /\ tt = 4 ->
        RMul[RMul[one_over_2p, one_over_2p], RMul[one_over_2p, one_over_2p]]
      [] a = 3 /\ b = 2 /\ tt = 0 ->
        RAdd[RAdd[RAdd[RAdd[RAdd[RMul[RMul[RMul[PA, PA], PA], RMul[PB, PB]], RMul[RMul[RMul[PA, PA], PA], one_over_2p]], RMul[RMul[RMul[Vec8d(6), RMul[PA, PA]], PB], one_over_2p]], RMul[RMul[RMul[Vec8d(3), PA], RMul[PB, PB]], one_over_2p]], RMul[RMul[Vec8d(9), PA], RMul[one_over_2p, one_over_2p]]], RMul[RMul[Vec8d(6), PB], RMul[one_over_2p, one_over_2p]]]
      [] a = 3 /\ b = 2 /\ tt = 1 ->
        RAdd[RAdd[RAdd[RAdd[RAdd[RMul[RMul[RMul[Vec8d(2), RMul[RMul[PA, PA], PA]], PB], one_over_2p], RMul[RMul[RMul[Vec8d(3), RMul[PA, PA]], RMul[PB, PB]], one_over_2p]], RMul[RMul[Vec8d(9), RMul[PA, PA]], RMul[one_over_2p, one_over_2p]]], RMul[RMul[RMul[Vec8d(18), PA], PB], RMul[one_over_2p, one_over_2p]]], RMul[RMul[Vec8d(3), RMul[PB, PB]], RMul[one_over_2p, one_over_2p]]], RMul[Vec8d(15), RMul[RMul[one_over_2p, one_over_2p], one_over_2p]]]
      [] a = 3 /\ b = 2 /\ tt = 2 ->
        RAdd[RAdd[RAdd[RAdd[RMul[RMul[RMul[PA, PA], PA], RMul[one_over_2p, one_over_2p]], RMul[RMul[RMul[Vec8d(6), RMul[PA, PA]], PB], RMul[one_over_2p, one_over_2p]]], RMul[RMul[RMul[Vec8d(3), PA], RMul[PB, PB]], RMul[one_over_2p, one_over_2p]]], RMul[RMul[Vec8d(18), PA], RMul[RMul[one_over_2p, one_over_2p], one_over_2p]]], RMul[RMul[Vec8d(12), PB], RMul[RMul[one_over_2p, one_over_2p], one_over_2p]]]
      [] a = 3 /\ b = 2 /\ tt = 3 ->
        RAdd[RAdd[RAdd[RMul[RMul[Vec8d(3), RMul[PA, PA]], RMul[RMul[one_over_2p, one_over_2p], one_over_2p]], RMul[RMul[RMul[Vec8d(6), PA], PB], RMul[RMul[one_over_2p, one_over_2p], one_over_2p]]], RMul[RMul[PB, PB], RMul[RMul[one_over_2p, one_over_2p], one_over_2p]]], RMul[Vec8d(10), RMul[RMul[one_over_2p, one_over_2p], RMul[one_over_2p, one_over_2p]]]]
      [] a = 3 /\ b = 2 /\ tt = 4 ->
        RAdd[RMul[RMul[Vec8d(3), PA], RMul[RMul[one_over_2p, one_over_2p], RMul[one_over_2p, one_over_2p]]], RMul[RMul[Vec8d(2), PB], RMul[RMul[one_over_2p, one_over_2p], RMul[one_over_2p, one_over_2p]]]]
      [] a = 3 /\ b = 2 /\ tt = 5 ->
        RMul[RMul[RMul[one_over_2p, one_over_2p], RMul[one_over_2p, one_over_2p]], one_over_2p]
      [] a = 3 /\ b = 3 /\ tt = 0 ->
        RAdd[RAdd[RAdd[RAdd[RAdd[RAdd[RAdd[RMul[RMul[RMul[PA, PA], PA], RMul[RMul[PB, PB], PB]], RMul[RMul[RMul[Vec8d(3), RMul[RMul[PA, PA], PA]], PB], one_over_2p]], RMul[RMul[RMul[Vec8d(9), RMul[PA, PA]], RMul[PB, PB]], one_over_2p]], RMul[RMul[Vec8d(9), RMul[PA, PA]], RMul[one_over_2p, one_over_2p]]], RMul[RMul[RMul[Vec8d(3), PA], RMul[RMul[PB, PB], PB]], one_over_2p]], RMul[RMul[RMul[Vec8d(27), PA], PB], RMul[one_over_2p, one_over_2p]]], RMul[RMul[Vec8d(9), RMul[PB, PB]], RMul[one_over_2p, one_over_2p]]], RMul[Vec8d(15), RMul[RMul[one_over_2p, one_over_2p], one_over_2p]]]
      [] a = 3 /\ b = 3 /\ tt = 1 ->
        RAdd[RAdd[RAdd[RAdd[RAdd[RAdd[RAdd[RMul[RMul[RMul[Vec8d(3), RMul[RMul[PA, PA], PA]], RMul[PB, PB]], one_over_2p], RMul[RMul[Vec8d(3), RMul[RMul[PA, PA], PA]], RMul[one_over_2p, one_over_2p]]], RMul[RMul[RMul[Vec8d(3), RMul[PA, PA]], RMul[RMul[PB, PB], PB]], one_over_2p]], RMul[RMul[RMul[Vec8d(27), RMul[PA, PA]], PB], RMul[one_over_2p, one_over_2p]]], RMul[RMul[RMul[Vec8d(27), PA], RMul[PB, PB]], RMul[one_over_2p, one_over_2p]]], RMul[RMul[Vec8d(45), PA], RMul[RMul[one_over_2p, one_over_2p], one_over_2p]]], RMul[RMul[Vec8d(3), RMul[RMul[PB, PB], PB]], RMul[one_over_2p, one_over_2p]]], RMul[RMul[Vec8d(45), PB], RMul[RMul[one_over_2p, one_over_2p], one_over_2p]]]
      [] a = 3 /\ b = 3 /\ tt = 2 ->
        RAdd[RAdd[RAdd[RAdd[RAdd[RAdd[RMul[RMul[RMul[Vec8d(3), RMul[RMul[PA, PA], PA]], PB], RMul[one_over_2p, one_over_2p]], RMul[RMul[RMul[Vec8d(9), RMul[PA, PA]], RMul[PB, PB]], RMul[one_over_2p, one_over_2p]]], RMul[RMul[Vec8d(18), RMul[PA, PA]], RMul[RMul[one_over_2p, one_over_2p], one_over_2p]]], RMul[RMul[RMul[Vec8d(3), PA], RMul[RMul[PB, PB], PB]], RMul[one_over_2p, one_over_2p]]], RMul[RMul[RMul[Vec8d(54), PA], PB], RMul[RMul[one_over_2p, one_over_2p], one_over_2p]]], RMul[RMul[Vec8d(18), RMul[PB, PB]], RMul[RMul[one_over_2p, one_over_2p], one_over_2p]]], RMul[Vec8d(45), RMul[RMul[one_over_2p, one_over_2p], RMul[one_over_2p, one_over_2p]]]]
      [] a = 3 /\ b = 3 /\ tt = 3 ->
        RAdd[RAdd[RAdd[RAdd[RAdd[RMul[RMul[RMul[PA, PA], PA], RMul[RMul[one_over_2p, one_over_2p], one_over_2p]], RMul[RMul[RMul[Vec8d(9), RMul[PA, PA]], PB], RMul[RMul[one_over_2p, one_over_2p], one_over_2p]]], RMul[RMul[RMul[Vec8d(9), PA], RMul[PB, PB]], RMul[RMul[one_over_2p, one_over_2p], one_over_2p]]], RMul[RMul[Vec8d(30), PA], RMul[RMul[one_over_2p, one_over_2p], RMul[one_over_2p, one_over_2p]]]], RMul[RMul[RMul[PB, PB], PB], RMul[RMul[one_over_2p, one_over_2p], one_over_2p]]], RMul[RMul[Vec8d(30), PB], RMul[RMul[one_over_2p, one_over_2p], RMul[one_over_2p, one_over_2p]]]]
      [] a = 3 /\ b = 3 /\ tt = 4 ->
        RAdd[RAdd[RAdd[RMul[RMul[Vec8d(3), RMul[PA, PA]], RMul[RMul[one_over_2p, one_over_2p], RMul[one_over_2p, one_over_2p]]], RMul[RMul[RMul[Vec8d(9), PA], PB], RMul[RMul[one_over_2p, one_over_2p], RMul[one_over_2p, one_over_2p]]]], RMul[RMul[Vec8d(3), RMul[PB, PB]], RMul[RMul[one_over_2p, one_over_2p], RMul[one_over_2p, one_over_2p]]]], RMul[Vec8d(15), RMul[RMul[RMul[one_over_2p, one_over_2p], RMul[one_over_2p, one_over_2p]], one_over_2p]]]
      [] a = 3 /\ b = 3 /\ tt = 5 ->
        RAdd[RMul[RMul[Vec8d(3), PA], RMul[RMul[RMul[one_over_2p, one_over_2p], RMul[one_over_2p, one_over_2p]], one_over_2p]], RMul[RMul[Vec8d(3), PB], RMul[RMul[RMul[one_over_2p, one_over_2p], RMul[one_over_2p, one_over_2p]], one_over_2p]]]
      [] a = 3 /\ b = 3 /\ tt = 6 ->
        RMul[RMul[RMul[one_over_2p, one_over_2p], one_over_2p], RMul[RMul[one_over_2p, one_over_2p], one_over_2p]]
      [] a = 3 /\ b = 4 /\ tt = 0 ->
        RAdd[RAdd[RAdd[RAdd[RAdd[RAdd[RAdd[RAdd[RAdd[RMul[RMul[RMul[PA, PA], PA], RMul[RMul[PB, PB], RMul[PB, PB]]], RMul[RMul[RMul[Vec8d(6), RMul[RMul[PA, PA], PA]], RMul[PB, PB]], one_over_2p]], RMul[RMul[Vec8d(3), RMul[RMul[PA, PA], PA]], RMul[one_over_2p, one_over_2p]]], RMul[RMul[RMul[Vec8d(12), RMul[PA, PA]], RMul[RMul[PB, PB], PB]], one_over_2p]], RMul[RMul[RMul[Vec8d(36), RMul[PA, PA]], PB], RMul[one_over_2p, one_over_2p]]], RMul[RMul[RMul[Vec8d(3), PA], RMul[RMul[PB, PB], RMul[PB, PB]]], one_over_2p]], RMul[RMul[RMul[Vec8d(54), PA], RMul[PB, PB]], RMul[one_over_2p, one_over_2p]]], RMul[RMul[Vec8d(45), PA], RMul[RMul[one_over_2p, one_over_2p], one_over_2p]]], RMul[RMul[Vec8d(12), RMul[RMul[PB, PB], PB]], RMul[one_over_2p, one_over_2p]]], RMul[RMul[Vec8d(60), PB], RMul[RMul[one_over_2p, one_over_2p], one_over_2p]]]
      [] a = 3 /\ b = 4 /\ tt = 1 ->
        RAdd[RAdd[RAdd[RAdd[RAdd[RAdd[RAdd[RAdd[RAdd[RMul[RMul[RMul[Vec8d(4), RMul[RMul[PA, PA], PA]], RMul[RMul[PB, PB], PB]], one_over_2p], RMul[RMul[RMul[Vec8d(12), RMul[RMul[PA, PA], PA]], PB], RMul[one_over_2p, one_over_2p]]], RMul[RMul[RMul[Vec8d(3), RMul[PA, PA]], RMul[RMul[PB, PB], RMul[PB, PB]]], one_over_2p]], RMul[RMul[RMul[Vec8d(54), RMul[PA, PA]], RMul[PB, PB]], RMul[one_over_2p, one_over_2p]]], RMul[RMul[Vec8d(45), RMul[PA, PA]], RMul[RMul[one_over_2p, one_over_2p], one_over_2p]]], RMul[RMul[RMul[Vec8d(36), PA], RMul[RMul[PB, PB], PB]], RMul[one_over_2p, one_over_2p]]], RMul[RMul[RMul[Vec8d(180), PA], PB], RMul[RMul[one_over_2p, one_over_2p], one_over_2p]]], RMul[RMul[Vec8d(3), RMul[RMul[PB, PB], RMul[PB, PB]]], RMul[one_over_2p, one_over_2p]]], RMul[RMul[Vec8d(90), RMul[PB, PB]], RMul[RMul[one_over_2p, one_over_2p], one_over_2p]]], RMul[Vec8d(105), RMul[RMul[one_over_2p, one_over_2p], RMul[one_over_2p, one_over_2p]]]]
      [] a = 3 /\ b = 4 /\ tt = 2 ->
        RAdd[RAdd[RAdd[RAdd[RAdd[RAdd[RAdd[RAdd[RMul[RMul[RMul[Vec8d(6), RMul[RMul[PA, PA], PA]], RMul[PB, PB]], RMul[one_over_2p, one_over_2p]], RMul[RMul[Vec8d(6), RMul[RMul[PA, PA], PA]], RMul[RMul[one_over_2p, one_over_2p], one_over_2p]]], RMul[RMul[RMul[Vec8d(12), RMul[PA, PA]], RMul[RMul[PB, PB], PB]], RMul[one_over_2p, one_over_2p]]], RMul[RMul[RMul[Vec8d(72), RMul[PA, PA]], PB], RMul[RMul[one_over_2p, one_over_2p], one_over_2p]]], RMul[RMul[RMul[Vec8d(3), PA], RMul[RMul[PB, PB], RMul[PB, PB]]], RMul[one_over_2p, one_over_2p]]], RMul[RMul[RMul[Vec8d(108), PA], RMul[PB, PB]], RMul[RMul[one_over_2p, one_over_2p], one_over_2p]]], RMul[RMul[Vec8d(135), PA], RMul[RMul[one_over_2p, one_over_2p], RMul[one_over_2p, one_over_2p]]]], RMul[RMul[Vec8d(24), RMul[RMul[PB, PB], PB]], RMul[RMul[one_over_2p, one_over_2p], one_over_2p]]], RMul[RMul[Vec8d(180), PB], RMul[RMul[one_over_2p, one_over_2p], RMul[one_over_2p, one_over_2p]]]]
      [] a = 3 /\ b = 4 /\ tt = 3 ->
        RAdd[RAdd[RAdd[RAdd[RAdd[RAdd[RAdd[RMul[RMul[RMul[Vec8d(4), RMul[RMul[PA, PA], PA]], PB], RMul[RMul[one_over_2p, one_over_2p], one_over_2p]], RMul[RMul[RMul[Vec8d(18), RMul[PA, PA]], RMul[PB, PB]], RMul[RMul[one_over_2p, one_over_2p], one_over_2p]]], RMul[RMul[Vec8d(30), RMul[PA, PA]], RMul[RMul[one_over_2p, one_over_2p], RMul[one_over_2p, one_over_2p]]]], RMul[RMul[RMul[Vec8d(12), PA], RMul[RMul[PB, PB], PB]], RMul[RMul[one_over_2p, one_over_2p], one_over_2p]]], RMul[RMul[RMul[Vec8d(120), PA], PB], RMul[RMul[one_over_2p, one_over_2p], RMul[one_over_2p, one_over_2p]]]], RMul[RMul[RMul[PB, PB], RMul[PB, PB]], RMul[RMul[one_over_2p, one_over_2p], one_over_2p]]], RMul[RMul[Vec8d(60), RMul[PB, PB]], RMul[RMul[one_over_2p, one_over_2p], RMul[one_over_2p, one_over_2p]]]], RMul[Vec8d(105), RMul[RMul[RMul[one_over_2p, one_over_2p], RMul[one_over_2p, one_over_2p]], one_over_2p]]]
      [] a = 3 /\ b = 4 /\ tt = 4 ->
        RAdd[RAdd[RAdd[RAdd[RAdd[RMul[RMul[RMul[PA, PA], PA], RMul[RMul[one_over_2p, one_over_2p], RMul[one_over_2p, one_over_2p]]], RMul[RMul[RMul[Vec8d(12), RMul[PA, PA]], PB], RMul[RMul[one_over_2p, one_over_2p], RMul[one_over_2p, one_over_2p]]]], RMul[RMul[RMul[Vec8d(18), PA], RMul[PB, PB]], RMul[RMul[one_over_2p, one_over_2p], RMul[one_over_2p, one_over_2p]]]], RMul[RMul[Vec8d(45), PA], RMul[RMul[RMul[one_over_2p, one_over_2p], RMul[one_over_2p, one_over_2p]], one_over_2p]]], RMul[RMul[Vec8d(4), RMul[RMul[PB, PB], PB]], RMul[RMul[one_over_2p, one_over_2p], RMul[one_over_2p, one_over_2p]]]], RMul[RMul[Vec8d(60), PB], RMul[RMul[RMul[one_over_2p, one_over_2p], RMul[one_over_2p, one_over_2p]], one_over_2p]]]
      [] a = 3 /\ b = 4 /\ tt = 5 ->
        RAdd[RAdd[RAdd[RMul[RMul[Vec8d(3), RMul[PA, PA]], RMul[RMul[RMul[one_over_2p, one_over_2p], RMul[one_over_2p, one_over_2p]], one_over_2p]], RMul[RMul[RMul[Vec8d(12), PA], PB], RMul[RMul[RMul[one_over_2p, one_over_2p], RMul[one_over_2p, one_over_2p]], one_over_2p]]], RMul[RMul[Vec8d(6), RMul[PB, PB]], RMul[RMul[RMul[one_over_2p, one_over_2p], RMul[one_over_2p, one_over_2p]], one_over_2p]]], RMul[Vec8d(21), RMul[RMul[RMul[one_over_2p, one_over_2p], one_over_2p], RMul[RMul[one_over_2p, one_over_2p], one_over_2p]]]]
      [] a = 3 /\ b = 4 /\ tt = 6 ->
        RAdd[RMul[RMul[Vec8d(3), PA], RMul[RMul[RMul[one_over_2p, one_over_2p], one_over_2p], RMul[RMul[one_over_2p, one_over_2p], one_over_2p]]], RMul[RMul[Vec8d(4), PB], RMul[RMul[RMul[one_over_2p, one_over_2p], one_over_2p], RMul[RMul[one_over_2p, one_over_2p], one_over_2p]]]]
      [] a = 3 /\ b = 4 /\ tt = 7 ->
        RMul[RMul[RMul[RMul[one_over_2p, one_over_2p], one_over_2p], RMul[RMul[one_over_2p, one_over_2p], one_over_2p]], one_over_2p]
      [] a = 4 /\ b = 0 /\ tt = 0 ->
        RAdd[RAdd[RMul[RMul[PA, PA], RMul[PA, PA]], RMul[RMul[Vec8d(6), RMul[PA, PA]], one_over_2p]], RMul[Vec8d(3), RMul[one_over_2p, one_over_2p]]]
      [] a = 4 /\ b = 0 /\ tt = 1 ->
        RAdd[RMul[RMul[Vec8d(4), RMul[RMul[PA, PA], PA]], one_over_2p], RMul[RMul[Vec8d(12), PA], RMul[one_over_2p, one_over_2p]]]
      [] a = 4 /\ b = 0 /\ tt = 2 ->
        RAdd[RMul[RMul[Vec8d(6), RMul[PA, PA]], RMul[one_over_2p, one_over_2p]], RMul[Vec8d(6), RMul[RMul[one_over_2p, one_over_2p], one_over_2p]]]
      [] a = 4 /\ b = 0 /\ tt = 3 ->
        RMul[RMul[Vec8d(4), PA], RMul[RMul[one_over_2p, one_over_2p], one_over_2p]]
      [] a = 4 /\ b = 0 /\ tt = 4 ->
        RMul[RMul[one_over_2p, one_over_2p], RMul[one_over_2p, one_over_2p]]
      [] a = 4 /\ b = 1 /\ tt = 0 ->
        RAdd[RAdd[RAdd[RAdd[RMul[RMul[RMul[PA, PA], RMul[PA, PA]], PB], RMul[RMul[Vec8d(4), RMul[RMul[PA, PA], PA]], one_over_2p]], RMul[RMul[RMul[Vec8d(6), RMul[PA, PA]], PB], one_over_2p]], RMul[RMul[Vec8d(12), PA], RMul[one_over_2p, one_over_2p]]], RMul[RMul[Vec8d(3), PB], RMul[one_over_2p, one_over_2p]]]
      [] a = 4 /\ b = 1 /\ tt = 1 ->
        RAdd[RAdd[RAdd[RAdd[RMul[RMul[RMul[PA, PA], RMul[PA, PA]], one_over_2p], RMul[RMul[RMul[Vec8d(4), RMul[RMul[PA, PA], PA]], PB], one_over_2p]], RMul[RMul[Vec8d(18), RMul[PA, PA]], RMul[one_over_2p, one_over_2p]]], RMul[RMul[RMul[Vec8d(12), PA], PB], RMul[one_over_2p, one_over_2p]]], RMul[Vec8d(15), RMul[RMul[one_over_2p, one_over_2p], one_over_2p]]]
      [] a = 4 /\ b = 1 /\ tt = 2 ->
        RAdd[RAdd[RAdd[RMul[RMul[Vec8d(4), RMul[RMul[PA, PA], PA]], RMul[one_over_2p, one_over_2p]], RMul[RMul[RMul[Vec8d(6), RMul[PA, PA]], PB], RMul[one_over_2p, one_over_2p]]], RMul[RMul[Vec8d(24), PA], RMul[RMul[one_over_2p, one_over_2p], one_over_2p]]], RMul[RMul[Vec8d(6), PB], RMul[RMul[one_over_2p, one_over_2p], one_over_2p]]]
      [] a = 4 /\ b = 1 /\ tt = 3 ->
        RAdd[RAdd[RMul[RMul[Vec8d(6), RMul[PA, PA]], RMul[RMul[one_over_2p, one_over_2p], one_over_2p]], RMul[RMul[RMul[Vec8d(4), PA], PB], RMul[RMul[one_over_2p, one_over_2p], one_over_2p]]], RMul[Vec8d(10), RMul[RMul[one_over_2p, one_over_2p], RMul[one_over_2p, one_over_2p]]]]
      [] a = 4 /\ b = 1 /\ tt = 4 ->
        RAdd[RMul[RMul[Vec8d(4), PA], RMul[RMul[one_over_2p, one_over_2p], RMul[one_over_2p, one_over_2p]]], RMul[PB, RMul[RMul[one_over_2p, one_over_2p], RMul[one_over_2p, one_over_2p]]]]
      [] a = 4 /\ b = 1 /\ tt = 5 ->
        RMul[RMul[RMul[one_over_2p, one_over_2p], RMul[one_over_2p, one_over_2p]], one_over_2p]
      [] a = 4 /\ b = 2 /\ tt = 0 ->
        RAdd[RAdd[RAdd[RAdd[RAdd[RAdd[RAdd[RMul[RMul[RMul[PA, PA], RMul[PA, PA]], RMul[PB, PB]], RMul[RMul[RMul[PA, PA], RMul[PA, PA]], one_over_2p]], RMul[RMul[RMul[Vec8d(8), RMul[RMul[PA, PA], PA]], PB], one_over_2p]], RMul[RMul[RMul[Vec8d(6), RMul[PA, PA]], RMul[PB, PB]], one_over_2p]], RMul[RMul[Vec8d(18), RMul[PA, PA]], RMul[one_over_2p, one_over_2p]]], RMul[RMul[RMul[Vec8d(24), PA], PB], RMul[one_over_2p, one_over_2p]]], RMul[RMul[Vec8d(3), RMul[PB, PB]], RMul[one_over_2p, one_over_2p]]], RMul[Vec8d(15), RMul[RMul[one_over_2p, one_over_2p], one_over_2p]]]
      [] a = 4 /\ b = 2 /\ tt = 1 ->
        RAdd[RAdd[RAdd[RAdd[RAdd[RAdd[RMul[RMul[RMul[Vec8d(2), RMul[RMul[PA, PA], RMul[PA, PA]]], PB], one_over_2p], RMul[RMul[RMul[Vec8d(4), RMul[RMul[PA, PA], PA]], RMul[PB, PB]], one_over_2p]], RMul[RMul[Vec8d(12), RMul[RMul[PA, PA], PA]], RMul[one_over_2p, one_over_2p]]], RMul[RMul[RMul[Vec8d(36), RMul[PA, PA]], PB], RMul[one_over_2p, one_over_2p]]], RMul[RMul[RMul[Vec8d(12), PA], RMul[PB, PB]], RMul[one_over_2p, one_over_2p]]], RMul[RMul[Vec8d(60), PA], RMul[RMul[one_over_2p, one_over_2p], one_over_2p]]], RMul[RMul[Vec8d(30), PB], RMul[RMul[one_over_2p, one_over_2p], one_over_2p]]]
      [] a = 4 /\ b = 2 /\ tt = 2 ->
        RAdd[RAdd[RAdd[RAdd[RAdd[RAdd[RMul[RMul[RMul[PA, PA], RMul[PA, PA]], RMul[one_over_2p, one_over_2p]], RMul[RMul[RMul[Vec8d(8), RMul[RMul[PA, PA], PA]], PB], RMul[one_over_2p, one_over_2p]]], RMul[RMul[RMul[Vec8d(6), RMul[PA, PA]], RMul[PB, PB]], RMul[one_over_2p, one_over_2p]]], RMul[RMul[Vec8d(36), RMul[PA, PA]], RMul[RMul[one_over_2p, one_over_2p], one_over_2p]]], RMul[RMul[RMul[Vec8d(48), PA], PB], RMul[RMul[one_over_2p, one_over_2p], one_over_2p]]], RMul[RMul[Vec8d(6), RMul[PB, PB]], RMul[RMul[one_over_2p, one_over_2p], one_over_2p]]], RMul[Vec8d(45), RMul[RMul[one_over_2p, one_over_2p], RMul[one_over_2p, one_over_2p]]]]
      [] a = 4 /\ b = 2 /\ tt = 3 ->
        RAdd[RAdd[RAdd[RAdd[RMul[RMul[Vec8d(4), RMul[RMul[PA, PA], PA]], RMul[RMul[one_over_2p, one_over_2p], one_over_2p]], RMul[RMul[RMul[Vec8d(12), RMul[PA, PA]], PB], RMul[RMul[one_over_2p, one_over_2p], one_over_2p]]], RMul[RMul[RMul[Vec8d(4), PA], RMul[PB, PB]], RMul[RMul[one_over_2p, one_over_2p], one_over_2p]]], RMul[RMul[Vec8d(40), PA], RMul[RMul[one_over_2p, one_over_2p], RMul[one_over_2p, one_over_2p]]]], RMul[RMul[Vec8d(20), PB], RMul[RMul[one_over_2p, one_over_2p], RMul[one_over_2p, one_over_2p]]]]
      [] a = 4 /\ b = 2 /\ tt = 4 ->
        RAdd[RAdd[RAdd[RMul[RMul[Vec8d(6), RMul[PA, PA]], RMul[RMul[one_over_2p, one_over_2p], RMul[one_over_2p, one_over_2p]]], RMul[RMul[RMul[Vec8d(8), PA], PB], RMul[RMul[one_over_2p, one_over_2p], RMul[one_over_2p, one_over_2p]]]], RMul[RMul[PB, PB], RMul[RMul[one_over_2p, one_over_2p], RMul[one_over_2p, one_over_2p]]]], RMul[Vec8d(15), RMul[RMul[RMul[one_over_2p, one_over_2p], RMul[one_over_2p, one_over_2p]], one_over_2p]]]
      [] a = 4 /\ b = 2 /\ tt = 5 ->
        RAdd[RMul[RMul[Vec8d(4), PA], RMul[RMul[RMul[one_over_2p, one_over_2p], RMul[one_over_2p, one_over_2p]], one_over_2p]], RMul[RMul[Vec8d(2), PB], RMul[RMul[RMul[one_over_2p, one_over_2p], RMul[one_over_2p, one_over_2p]], one_over_2p]]]
      [] a = 4 /\ b = 2 /\ tt = 6 ->
        RMul[RMul[RMul[one_over_2p, one_over_2p], one_over_2p], RMul[RMul[one_over_2p, one_over_2p], one_over_2p]]
      [] a = 4 /\ b = 3 /\ tt = 0 ->
        RAdd[RAdd[RAdd[RAdd[RAdd[RAdd[RAdd[RAdd[RAdd[RMul[RMul[RMul[PA, PA], RMul[PA, PA]], RMul[RMul[PB, PB], PB]], RMul[RMul[RMul[Vec8d(3), RMul[RMul[PA, PA], RMul[PA, PA]]], PB], one_over_2p]], RMul[RMul[RMul[Vec8d(12), RMul[RMul[PA, PA], PA]], RMul[PB, PB]], one_over_2p]], RMul[RMul[Vec8d(12), RMul[RMul[PA, PA], PA]], RMul[one_over_2p, one_over_2p]]], RMul[RMul[RMul[Vec8d(6), RMul[PA, PA]], RMul[RMul[PB, PB], PB]], one_over_2p]], RMul[RMul[RMul[Vec8d(54), RMul[PA, PA]], PB], RMul[one_over_2p, one_over_2p]]], RMul[RMul[RMul[Vec8d(36), PA], RMul[PB, PB]], RMul[one_over_2p, one_over_2p]]], RMul[RMul[Vec8d(60), PA], RMul[RMul[one_over_2p, one_over_2p], one_over_2p]]], RMul[RMul[Vec8d(3), RMul[RMul[PB, PB], PB]], RMul[one_over_2p, one_over_2p]]], RMul[RMul[Vec8d(45), PB], RMul[RMul[one_over_2p, one_over_2p], one_over_2p]]]
      [] a = 4 /\ b = 3 /\ tt = 1 ->
        RAdd[RAdd[RAdd[RAdd[RAdd[RAdd[RAdd[RAdd[RAdd[RMul[RMul[RMul[Vec8d(3), RMul[RMul[PA, PA], RMul[PA, PA]]], RMul[PB, PB]], one_over_2p], RMul[RMul[Vec8d(3), RMul[RMul[PA, PA], RMul[PA, PA]]], RMul[one_over_2p, one_over_2p]]], RMul[RMul[RMul[Vec8d(4), RMul[RMul[PA, PA], PA]], RMul[RMul[PB, PB], PB]], one_over_2p]], RMul[RMul[RMul[Vec8d(36), RMul[RMul[PA, PA], PA]], PB], RMul[one_over_2p, one_over_2p]]], RMul[RMul[RMul[Vec8d(54), RMul[PA, PA]], RMul[PB, PB]], RMul[one_over_2p, one_over_2p]]], RMul[RMul[Vec8d(90), RMul[PA, PA]], RMul[RMul[one_over_2p, one_over_2p], one_over_2p]]], RMul[RMul[RMul[Vec8d(12), PA], RMul[RMul[PB, PB], PB]], RMul[one_over_2p, one_over_2p]]], RMul[RMul[RMul[Vec8d(180), PA], PB], RMul[RMul[one_over_2p, one_over_2p], one_over_2p]]], RMul[RMul[Vec8d(45), RMul[PB, PB]], RMul[RMul[one_over_2p, one_over_2p], one_over_2p]]], RMul[Vec8d(105), RMul[RMul[one_over_2p, one_over_2p], RMul[one_over_2p, one_over_2p]]]]
      [] a = 4 /\ b = 3 /\ tt = 2 ->
        RAdd[RAdd[RAdd[RAdd[RAdd[RAdd[RAdd[RAdd[RMul[RMul[RMul[Vec8d(3), RMul[RMul[PA, PA], RMul[PA, PA]]], PB], RMul[one_over_2p, one_over_2p]], RMul[RMul[RMul[Vec8d(12), RMul[RMul[PA, PA], PA]], RMul[PB, PB]], RMul[one_over_2p, one_over_2p]]], RMul[RMul[Vec8d(24), RMul[RMul[PA, PA], PA]], RMul[RMul[one_over_2p, one_over_2p], one_over_2p]]], RMul[RMul[RMul[Vec8d(6), RMul[PA, PA]], RMul[RMul[PB, PB], PB]], RMul[one_over_2p, one_over_2p]]], RMul[RMul[RMul[Vec8d(108), RMul[PA, PA]], PB], RMul[RMul[one_over_2p, one_over_2p], one_over_2p]]], RMul[RMul[RMul[Vec8d(72), PA], RMul[PB, PB]], RMul[RMul[one_over_2p, one_over_2p], one_over_2p]]], RMul[RMul[Vec8d(180), PA], RMul[RMul[one_over_2p, one_over_2p], RMul[one_over_2p, one_over_2p]]]], RMul[RMul[Vec8d(6), RMul[RMul[PB, PB], PB]], RMul[RMul[one_over_2p, one_over_2p], one_over_2p]]], RMul[RMul[Vec8d(135), PB], RMul[RMul[one_over_2p, one_over_2p], RMul[one_over_2p, one_over_2p]]]]
      [] a = 4 /\ b = 3 /\ tt = 3 ->
        RAdd[RAdd[RAdd[RAdd[RAdd[RAdd[RAdd[RMul[RMul[RMul[PA, PA], RMul[PA, PA]], RMul[RMul[one_over_2p, one_over_2p], one_over_2p]], RMul[RMul[RMul[Vec8d(12), RMul[RMul[PA, PA], PA]], PB], RMul[RMul[one_over_2p, one_over_2p], one_over_2p]]], RMul[RMul[RMul[Vec8d(18), RMul[PA, PA]], RMul[PB, PB]], RMul[RMul[one_over_2p, one_over_2p], one_over_2p]]], RMul[RMul[Vec8d(60), RMul[PA, PA]], RMul[RMul[one_over_2p, one_over_2p], RMul[one_over_2p, one_over_2p]]]], RMul[RMul[RMul[Vec8d(4), PA], RMul[RMul[PB, PB], PB]], RMul[RMul[one_over_2p, one_over_2p], one_over_2p]]], RMul[RMul[RMul[Vec8d(120), PA], PB], RMul[RMul[one_over_2p, one_over_2p], RMul[one_over_2p, one_over_2p]]]], RMul[RMul[Vec8d(30), RMul[PB, PB]], RMul[RMul[one_over_2p, one_over_2p], RMul[one_over_2p, one_over_2p]]]], RMul[Vec8d(105), RMul[RMul[RMul[one_over_2p, one_over_2p], RMul[one_over_2p, one_over_2p]], one_over_2p]]]
      [] a = 4 /\ b = 3 /\ tt = 4 ->
        RAdd[RAdd[RAdd[RAdd[RAdd[RMul[RMul[Vec8d(4), RMul[RMul[PA, PA], PA]], RMul[RMul[one_over_2p, one_over_2p], RMul[one_over_2p, one_over_2p]]], RMul[RMul[RMul[Vec8d(18), RMul[PA, PA]], PB], RMul[RMul[one_over_2p, one_over_2p], RMul[one_over_2p, one_over_2p]]]], RMul[RMul[RMul[Vec8d(12), PA], RMul[PB, PB]], RMul[RMul[one_over_2p, one_over_2p], RMul[one_over_2p, one_over_2p]]]], RMul[RMul[Vec8d(60), PA], RMul[RMul[RMul[one_over_2p, one_over_2p], RMul[one_over_2p, one_over_2p]], one_over_2p]]], RMul[RMul[RMul[PB, PB], PB], RMul[RMul[one_over_2p, one_over_2p], RMul[one_over_2p, one_over_2p]]]], RMul[RMul[Vec8d(45), PB], RMul[RMul[RMul[one_over_2p, one_over_2p], RMul[one_over_2p, one_over_2p]], one_over_2p]]]
      [] a = 4 /\ b = 3 /\ tt = 5 ->
        RAdd[RAdd[RAdd[RMul[RMul[Vec8d(6), RMul[PA, PA]], RMul[RMul[RMul[one_over_2p, one_over_2p], RMul[one_over_2p, one_over_2p]], one_over_2p]], RMul[RMul[RMul[Vec8d(12), PA], PB], RMul[RMul[RMul[one_over_2p, one_over_2p], RMul[one_over_2p, one_over_2p]], one_over_2p]]], RMul[RMul[Vec8d(3), RMul[PB, PB]], RMul[RMul[RMul[one_over_2p, one_over_2p], RMul[one_over_2p, one_over_2p]], one_over_2p]]], RMul[Vec8d(21), RMul[RMul[RMul[one_over_2p, one_over_2p], one_over_2p], RMul[RMul[one_over_2p, one_over_2p], one_over_2p]]]]
      [] a = 4 /\ b = 3 /\ tt = 6 ->
        RAdd[RMul[RMul[Vec8d(4), PA], RMul[RMul[RMul[one_over_2p, one_over_2p], one_over_2p], RMul[RMul[one_over_2p, one_over_2p], one_over_2p]]], RMul[RMul[Vec8d(3), PB], RMul[RMul[RMul[one_over_2p, one_over_2p], one_over_2p], RMul[RMul[one_over_2p, one_over_2p], one_over_2p]]]]
      [] a = 4 /\ b = 3 /\ tt = 7 ->
        RMul[RMul[RMul[RMul[one_over_2p, one_over_2p], one_over_2p], RMul[RMul[one_over_2p, one_over_2p], one_over_2p]], one_over_2p]
      [] a = 4 /\ b = 4 /\ tt = 0 ->
        RAdd[RAdd[RAdd[RAdd[RAdd[RAdd[RAdd[RAdd[RAdd[RAdd[RAdd[RAdd[RMul[RMul[RMul[PA, PA], RMul[PA, PA]], RMul[RMul[PB, PB], RMul[PB, PB]]], RMul[RMul[RMul[Vec8d(6), RMul[RMul[PA, PA], RMul[PA, PA]]], RMul[PB, PB]], one_over_2p]], RMul[RMul[Vec8d(3), RMul[RMul[PA, PA], RMul[PA, PA]]], RMul[one_over_2p, one_over_2p]]], RMul[RMul[RMul[Vec8d(16), RMul[RMul[PA, PA], PA]], RMul[RMul[PB, PB], PB]], one_over_2p]], RMul[RMul[RMul[Vec8d(48), RMul[RMul[PA, PA], PA]], PB], RMul[one_over_2p, one_over_2p]]], RMul[RMul[RMul[Vec8d(6), RMul[PA, PA]], RMul[RMul[PB, PB], RMul[PB, PB]]], one_over_2p]], RMul[RMul[RMul[Vec8d(108), RMul[PA, PA]], RMul[PB, PB]], RMul[one_over_2p, one_over_2p]]], RMul[RMul[Vec8d(90), RMul[PA, PA]], RMul[RMul[one_over_2p, one_over_2p], one_over_2p]]], RMul[RMul[RMul[Vec8d(48), PA], RMul[RMul[PB, PB], PB]], RMul[one_over_2p, one_over_2p]]], RMul[RMul[RMul[Vec8d(240), PA], PB], RMul[RMul[one_over_2p, one_over_2p], one_over_2p]]], RMul[RMul[Vec8d(3), RMul[RMul[PB, PB], RMul[PB, PB]]], RMul[one_over_2p, one_over_2p]]], RMul[RMul[Vec8d(90), RMul[PB, PB]], RMul[RMul[one_over_2p, one_over_2p], one_over_2p]]], RMul[Vec8d(105), RMul[RMul[one_over_2p, one_over_2p], RMul[one_over_2p, one_over_2p]]]]
      [] a = 4 /\ b = 4 /\ tt = 1 ->
        RAdd[RAdd[RAdd[RAdd[RAdd[RAdd[RAdd[RAdd[RAdd[RAdd[RAdd[RMul[RMul[RMul[Vec8d(4), RMul[RMul[PA, PA], RMul[PA, PA]]], RMul[RMul[PB, PB], PB]], one_over_2p], RMul[RMul[RMul[Vec8d(12), RMul[RMul[PA, PA], RMul[PA, PA]]], PB], RMul[one_over_2p, one_over_2p]]], RMul[RMul[RMul[Vec8d(4), RMul[RMul[PA, PA], PA]], RMul[RMul[PB, PB], RMul[PB, PB]]], one_over_2p]], RMul[RMul[RMul[Vec8d(72), RMul[RMul[PA, PA], PA]], RMul[PB, PB]], RMul[one_over_2p, one_over_2p]]], RMul[RMul[Vec8d(60), RMul[RMul[PA, PA], PA]], RMul[RMul[one_over_2p, one_over_2p], one_over_2p]]], RMul[RMul[RMul[Vec8d(72), RMul[PA, PA]], RMul[RMul[PB, PB], PB]], RMul[one_over_2p, one_over_2p]]], RMul[RMul[RMul[Vec8d(360), RMul[PA, PA]], PB], RMul[RMul[one_over_2p, one_over_2p], one_over_2p]]], RMul[RMul[RMul[Vec8d(12), PA], RMul[RMul[PB, PB], RMul[PB, PB]]], RMul[one_over_2p, one_over_2p]]], RMul[RMul[RMul[Vec8d(360), PA], RMul[PB, PB]], RMul[RMul[one_over_2p, one_over_2p], one_over_2p]]], RMul[RMul[Vec8d(420), PA], RMul[RMul[one_over_2p, one_over_2p], RMul[one_over_2p, one_over_2p]]]], RMul[RMul[Vec8d(60), RMul[RMul[PB, PB], PB]], RMul[RMul[one_over_2p, one_over_2p], one_over_2p]]], RMul[RMul[Vec8d(420), PB], RMul[RMul[one_over_2p, one_over_2p], RMul[one_over_2p, one_over_2p]]]]
      [] a = 4 /\ b = 4 /\ tt = 2 ->
        RAdd[RAdd[RAdd[RAdd[RAdd[RAdd[RAdd[RAdd[RAdd[RAdd[RAdd[RMul[RMul[RMul[Vec8d(6), RMul[RMul[PA, PA], RMul[PA, PA]]], RMul[PB, PB]], RMul[one_over_2p, one_over_2p]], RMul[RMul[Vec8d(6), RMul[RMul[PA, PA], RMul[PA, PA]]], RMul[RMul[one_over_2p, one_over_2p], one_over_2p]]], RMul[RMul[RMul[Vec8d(16), RMul[RMul[PA, PA], PA]], RMul[RMul[PB, PB], PB]], RMul[one_over_2p, one_over_2p]]], RMul[RMul[RMul[Vec8d(96), RMul[RMul[PA, PA], PA]], PB], RMul[RMul[one_over_2p, one_over_2p], one_over_2p]]], RMul[RMul[RMul[Vec8d(6), RMul[PA, PA]], RMul[RMul[PB, PB], RMul[PB, PB]]], RMul[one_over_2p, one_over_2p]]], RMul[RMul[RMul[Vec8d(216), RMul[PA, PA]], RMul[PB, PB]], RMul[RMul[one_over_2p, one_over_2p], one_over_2p]]], RMul[RMul[Vec8d(270), RMul[PA, PA]], RMul[RMul[one_over_2p, one_over_2p], RMul[one_over_2p, one_over_2p]]]], RMul[RMul[RMul[Vec8d(96), PA], RMul[RMul[PB, PB], PB]], RMul[RMul[one_over_2p, one_over_2p], one_over_2p]]], RMul[RMul[RMul[Vec8d(720), PA], PB], RMul[RMul[one_over_2p, one_over_2p], RMul[one_over_2p, one_over_2p]]]], RMul[RMul[Vec8d(6), RMul[RMul[PB, PB], RMul[PB, PB]]], RMul[RMul[one_over_2p, one_over_2p], one_over_2p]]], RMul[RMul[Vec8d(270), RMul[PB, PB]], RMul[RMul[one_over_2p, one_over_2p], RMul[one_over_2p, one_over_2p]]]], RMul[Vec8d(420), RMul[RMul[RMul[one_over_2p, one_over_2p], RMul[one_over_2p, one_over_2p]], one_over_2p]]]
      [] a = 4 /\ b = 4 /\ tt = 3 ->
        RAdd[RAdd[RAdd[RAdd[RAdd[RAdd[RAdd[RAdd[RAdd[RMul[RMul[RMul[Vec8d(4), RMul[RMul[PA, PA], RMul[PA, PA]]], PB], RMul[RMul[one_over_2p, one_over_2p], one_over_2p]], RMul[RMul[RMul[Vec8d(24), RMul[RMul[PA, PA], PA]], RMul[PB, PB]], RMul[RMul[one_over_2p, one_over_2p], one_over_2p]]], RMul[RMul[Vec8d(40), RMul[RMul[PA, PA], PA]], RMul[RMul[one_over_2p, one_over_2p], RMul[one_over_2p, one_over_2p]]]], RMul[RMul[RMul[Vec8d(24), RMul[PA, PA]], RMul[RMul[PB, PB], PB]], RMul[RMul[one_over_2p, one_over_2p], one_over_2p]]], RMul[RMul[RMul[Vec8d(240), RMul[PA, PA]], PB], RMul[RMul[one_over_2p, one_over_2p], RMul[one_over_2p, one_over_2p]]]], RMul[RMul[RMul[Vec8d(4), PA], RMul[RMul[PB, PB], RMul[PB, PB]]], RMul[RMul[one_over_2p, one_over_2p], one_over_2p]]], RMul[RMul[RMul[Vec8d(240), PA], RMul[PB, PB]], RMul[RMul[one_over_2p, one_over_2p], RMul[one_over_2p, one_over_2p]]]], RMul[RMul[Vec8d(420), PA], RMul[RMul[RMul[one_over_2p, one_over_2p], RMul[one_over_2p, one_over_2p]], one_over_2p]]], RMul[RMul[Vec8d(40), RMul[RMul[PB, PB], PB]], RMul[RMul[one_over_2p, one_over_2p], RMul[one_over_2p, one_over_2p]]]], RMul[RMul[Vec8d(420), PB], RMul[RMul[RMul[one_over_2p, one_over_2p], RMul[one_over_2p, one_over_2p]], one_over_2p]]]
      [] a = 4 /\ b = 4 /\ tt = 4 ->
        RAdd[RAdd[RAdd[RAdd[RAdd[RAdd[RAdd[RAdd[RMul[RMul[RMul[PA, PA], RMul[PA, PA]], RMul[RMul[one_over_2p, one_over_2p], RMul[one_over_2p, one_over_2p]]], RMul[RMul[RMul[Vec8d(16), RMul[RMul[PA, PA], PA]], PB], RMul[RMul[one_over_2p, one_over_2p], RMul[one_over_2p, one_over_2p]]]], RMul[RMul[RMul[Vec8d(36), RMul[PA, PA]], RMul[PB, PB]], RMul[RMul[one_over_2p, one_over_2p], RMul[one_over_2p, one_over_2p]]]], RMul[RMul[Vec8d(90), RMul[PA, PA]], RMul[RMul[RMul[one_over_2p, one_over_2p], RMul[one_over_2p, one_over_2p]], one_over_2p]]], RMul[RMul[RMul[Vec8d(16), PA], RMul[RMul[PB, PB], PB]], RMul[RMul[one_over_2p, one_over_2p], RMul[one_over_2p, one_over_2p]]]], RMul[RMul[RMul[Vec8d(240), PA], PB], RMul[RMul[RMul[one_over_2p, one_over_2p], RMul[one_over_2p, one_over_2p]], one_over_2p]]], RMul[RMul[RMul[PB, PB], RMul[PB, PB]], RMul[RMul[one_over_2p, one_over_2p], RMul[one_over_2p, one_over_2p]]]], RMul[RMul[Vec8d(90), RMul[PB, PB]], RMul[RMul[RMul[one_over_2p, one_over_2p], RMul[one_over_2p, one_over_2p]], one_over_2p]]], RMul[Vec8d(210), RMul[RMul[RMul[one_over_2p, one_over_2p], one_over_2p], RMul[RMul[one_over_2p, one_over_2p], one_over_2p]]]]
      [] a = 4 /\ b = 4 /\ tt = 5 ->
        RAdd[RAdd[RAdd[RAdd[RAdd[RMul[RMul[Vec8d(4), RMul[RMul[PA, PA], PA]], RMul[RMul[RMul[one_over_2p, one_over_2p], RMul[one_over_2p, one_over_2p]], one_over_2p]], RMul[RMul[RMul[Vec8d(24), RMul[PA, PA]], PB], RMul[RMul[RMul[one_over_2p, one_over_2p], RMul[one_over_2p, one_over_2p]], one_over_2p]]], RMul[RMul[RMul[Vec8d(24), PA], RMul[PB, PB]], RMul[RMul[RMul[one_over_2p, one_over_2p], RMul[one_over_2p, one_over_2p]], one_over_2p]]], RMul[RMul[Vec8d(84), PA], RMul[RMul[RMul[one_over_2p, one_over_2p], one_over_2p], RMul[RMul[one_over_2p, one_over_2p], one_over_2p]]]], RMul[RMul[Vec8d(4), RMul[RMul[PB, PB], PB]], RMul[RMul[RMul[one_over_2p, one_over_2p], RMul[one_over_2p, one_over_2p]], one_over_2p]]], RMul[RMul[Vec8d(84), PB], RMul[RMul[RMul[one_over_2p, one_over_2p], one_over_2p], RMul[RMul[one_over_2p, one_over_2p], one_over_2p]]]]
      [] a = 4 /\ b = 4 /\ tt = 6 ->
        RAdd[RAdd[RAdd[RMul[RMul[Vec8d(6), RMul[PA, PA]], RMul[RMul[RMul[one_over_2p, one_over_2p], one_over_2p], RMul[RMul[one_over_2p, one_over_2p], one_over_2p]]], RMul[RMul[RMul[Vec8d(16), PA], PB], RMul[RMul[RMul[one_over_2p, one_over_2p], one_over_2p], RMul[RMul[one_over_2p, one_over_2p], one_over_2p]]]], RMul[RMul[Vec8d(6), RMul[PB, PB]], RMul[RMul[RMul[one_over_2p, one_over_2p], one_over_2p], RMul[RMul[one_over_2p, one_over_2p], one_over_2p]]]], RMul[Vec8d(28), RMul[RMul[RMul[RMul[one_over_2p, one_over_2p], one_over_2p], RMul[RMul[one_over_2p, one_over_2p], one_over_2p]], one_over_2p]]]
      [] a = 4 /\ b = 4 /\ tt = 7 ->
        RAdd[RMul[RMul[Vec8d(4), PA], RMul[RMul[RMul[RMul[one_over_2p, one_over_2p], one_over_2p], RMul[RMul[one_over_2p, one_over_2p], one_over_2p]], one_over_2p]], RMul[RMul[Vec8d(4), PB], RMul[RMul[RMul[RMul[one_over_2p, one_over_2p], one_over_2p], RMul[RMul[one_over_2p, one_over_2p], one_over_2p]], one_over_2p]]]
      [] a = 4 /\ b = 4 /\ tt = 8 ->
        RMul[RMul[RMul[one_over_2p, one_over_2p], RMul[one_over_2p, one_over_2p]], RMul[RMul[one_over_2p, one_over_2p], RMul[one_over_2p, one_over_2p]]]

\* dispatch_hermite_e_symbolic: the chain of tests over the generated triples,
\* return Vec8d(0.0) when none matches
dispatch_hermite_e_symbolic(a, b, tt, PA, PB, one_over_2p) ==
    IF a \in 0..BENCH_MAX_L /\ b \in 0..BENCH_MAX_L /\ tt \in 0..(a + b) THEN
        hermite_e_symbolic(a, b, tt, PA, PB, one_over_2p)
    ELSE
        Vec8d(0)

\* ------------------------------------------------------------------------
\* TMPDispatcher and SymbolicDispatcher (benchmark_dispatcher.hpp)
\* ------------------------------------------------------------------------
\* slip: the largest t index is BENCH_MAX_L
BENCH_MAX_N_mut == BENCH_MAX_L

\* constexpr int BENCH_MAX_N = 2 * BENCH_MAX_L
BENCH_MAX_N == 2 * BENCH_MAX_L

MAX_NA == BENCH_MAX_L
MAX_NB == BENCH_MAX_L
MAX_N == BENCH_MAX_N

\* TMPDispatcher::RegisterT<NA,NB,T>::apply: the triples it registers
RECURSIVE RegisterT(_, _, _)
RegisterT(NA, NB, T) ==
    IF T <= NA + NB /\ T <= MAX_N
      THEN {<<NA, NB, T>>} \cup
           (IF T + 1 <= NA + NB /\ T + 1 <= MAX_N THEN RegisterT(NA, NB, T + 1) ELSE {})
      ELSE {}

RECURSIVE RegisterNB(_, _)
RegisterNB(NA, NB) ==
    RegisterT(NA, NB, 0) \cup (IF NB + 1 <= MAX_NB THEN RegisterNB(NA, NB + 1) ELSE {})

RECURSIVE RegisterNA(_)
RegisterNA(NA) ==
    RegisterNB(NA, 0) \cup (IF NA + 1 <= MAX_NA THEN RegisterNA(NA + 1) ELSE {})

\* TMPDispatcher::registerAll: the entries of table_ that hold a function;
\* table_[NA][NB][T] calls HermiteE<NA,NB,T>::compute
TMPRegistered == RegisterNA(0)

\* SymbolicDispatcher::registerAll: each assignment table_[a][b][t] = ... in
\* the order of the source, as <<index triple, triple of the function
\* hermite_e_symbolic_a_b_t it calls>>
SymbolicAssignments == <<
    <<<<0, 0, 0>>, <<0, 0, 0>>>>, <<<<0, 1, 0>>, <<0, 1, 0>>>>,
    <<<<0, 1, 1>>, <<0, 1, 1>>>>, <<<<0, 2, 0>>, <<0, 2, 0>>>>,
    <<<<0, 2, 1>>, <<0, 2, 1>>>>, <<<<0, 2, 2>>, <<0, 2, 2>>>>,
    <<<<0, 3, 0>>, <<0, 3, 0>>>>, <<<<0, 3, 1>>, <<0, 3, 1>>>>,
    <<<<0, 3, 2>>, <<0, 3, 2>>>>, <<<<0, 3, 3>>, <<0, 3, 3>>>>,
    <<<<0, 4, 0>>, <<0, 4, 0>>>>, <<<<0, 4, 1>>, <<0, 4, 1>>>>,
    <<<<0, 4, 2>>, <<0, 4, 2>>>>, <<<<0, 4, 3>>, <<0, 4, 3>>>>,
    <<<<0, 4, 4>>, <<0, 4, 4>>>>, <<<<1, 0, 0>>, <<1, 0, 0>>>>,
    <<<<1, 0, 1>>, <<1, 0, 1>>>>, <<<<1, 1, 0>>, <<1, 1, 0>>>>,
    <<<<1, 1, 1>>, <<1, 1, 1>>>>, <<<<1, 1, 2>>, <<1, 1, 2>>>>,
    <<<<1, 2, 0>>, <<1, 2, 0>>>>, <<<<1, 2, 1>>, <<1, 2, 1>>>>,
    <<<<1, 2, 2>>, <<1, 2, 2>>>>, <<<<1, 2, 3>>, <<1, 2, 3>>>>,
    <<<<1, 3, 0>>, <<1, 3, 0>>>>, <<<<1, 3, 1>>, <<1, 3, 1>>>>,
    <<<<1, 3, 2>>, <<1, 3, 2>>>>, <<<<1, 3, 3>>, <<1, 3, 3>>>>,
    <<<<1, 3, 4>>, <<1, 3, 4>>>>, <<<<1, 4, 0>>, <<1, 4, 0>>>>,
    <<<<1, 4, 1>>, <<1, 4, 1>>>>, <<<<1, 4, 2>>, <<1, 4, 2>>>>,
    <<<<1, 4, 3>>, <<1, 4, 3>>>>, <<<<1, 4, 4>>, <<1, 4, 4>>>>,
    <<<<1, 4, 5>>, <<1, 4, 5>>>>, <<<<2, 0, 0>>, <<2, 0, 0>>>>,
    <<<<2, 0, 1>>, <<2, 0, 1>>>>, <<<<2, 0, 2>>, <<2, 0, 2>>>>,
    <<<<2, 1, 0>>, <<2, 1, 0>>>>, <<<<2, 1, 1>>, <<2, 1, 1>>>>,
    <<<<2, 1, 2>>, <<2, 1, 2>>>>, <<<<2, 1, 3>>, <<2, 1, 3>>>>,
    <<<<2, 2, 0>>, <<2, 2, 0>>>>, <<<<2, 2, 1>>, <<2, 2, 1>>>>,
    <<<<2, 2, 2>>, <<2, 2, 2>>>>, <<<<2, 2, 3>>, <<2, 2, 3>>>>,
    <<<<2, 2, 4>>, <<2, 2, 4>>>>, <<<<2, 3, 0>>, <<2, 3, 0>>>>,
    <<<<2, 3, 1>>, <<2, 3, 1>>>>, <<<<2, 3, 2>>, <<2, 3, 2>>>>,
    <<<<2, 3, 3>>, <<2, 3, 3>>>>, <<<<2, 3, 4>>, <<2, 3, 4>>>>,
    <<<<2, 3, 5>>, <<2, 3, 5>>>>, <<<<2, 4, 0>>, <<2, 4, 0>>>>,
    <<<<2, 4, 1>>, <<2, 4, 1>>>>, <<<<2, 4, 2>>, <<2, 4, 2>>>>,
    <<<<2, 4, 3>>, <<2, 4, 3>>>>, <<<<2, 4, 4>>, <<2, 4, 4>>>>,
    <<<<2, 4, 5>>, <<2, 4, 5>>>>, <<<<2, 4, 6>>, <<2, 4, 6>>>>,
    <<<<3, 0, 0>>, <<3, 0, 0>>>>, <<<<3, 0, 1>>, <<3, 0, 1>>>>,
    <<<<3, 0, 2>>, <<3, 0, 2>>>>, <<<<3, 0, 3>>, <<3, 0, 3>>>>,
    <<<<3, 1, 0>>, <<3, 1, 0>>>>, <<<<3, 1, 1>>, <<3, 1, 1>>>>,
    <<<<3, 1, 2>>, <<3, 1, 2>>>>, <<<<3, 1, 3>>, <<3, 1, 3>>>>,
    <<<<3, 1, 4>>, <<3, 1, 4>>>>, <<<<3, 2, 0>>, <<3, 2, 0>>>>,
    <<<<3, 2, 1>>, <<3, 2, 1>>>>, <<<<3, 2, 2>>, <<3, 2, 2>>>>,
    <<<<3, 2, 3>>, <<3, 2, 3>>>>, <<<<3, 2, 4>>, <<3, 2, 4>>>>,
    <<<<3, 2, 5>>, <<3, 2, 5>>>>, <<<<3, 3, 0>>, <<3, 3, 0>>>>,
    <<<<3, 3, 1>>, <<3, 3, 1>>>>, <<<<3, 3, 2>>, <<3, 3, 2>>>>,
    <<<<3, 3, 3>>, <<3, 3, 3>>>>, <<<<3, 3, 4>>, <<3, 3, 4>>>>,
    <<<<3, 3, 5>>, <<3, 3, 5>>>>, <<<<3, 3, 6>>, <<3, 3, 6>>>>,
    <<<<3, 4, 0>>, <<3, 4, 0>>>>, <<<<3, 4, 1>>, <<3, 4, 1>>>>,
    <<<<3, 4, 2>>, <<3, 4, 2>>>>, <<<<3, 4, 3>>, <<3, 4, 3>>>>,
    <<<<3, 4, 4>>, <<3, 4, 4>>>>, <<<<3, 4, 5>>, <<3, 4, 5>>>>,
    <<<<3, 4, 6>>, <<3, 4, 6>>>>, <<<<3, 4, 7>>, <<3, 4, 7>>>>,
    <<<<4, 0, 0>>, <<4, 0, 0>>>>, <<<<4, 0, 1>>, <<4, 0, 1>>>>,
    <<<<4, 0, 2>>, <<4, 0, 2>>>>, <<<<4, 0, 3>>, <<4, 0, 3>>>>,
    <<<<4, 0, 4>>, <<4, 0, 4>>>>, <<<<4, 1, 0>>, <<4, 1, 0>>>>,
    <<<<4, 1, 1>>, <<4, 1, 1>>>>, <<<<4, 1, 2>>, <<4, 1, 2>>>>,
    <<<<4, 1, 3>>, <<4, 1, 3>>>>, <<<<4, 1, 4>>, <<4, 1, 4>>>>,
    <<<<4, 1, 5>>, <<4, 1, 5>>>>, <<<<4, 2, 0>>, <<4, 2, 0>>>>,
    <<<<4, 2, 1>>, <<4, 2, 1>>>>, <<<<4, 2, 2>>, <<4, 2, 2>>>>,
    <<<<4, 2, 3>>, <<4, 2, 3>>>>, <<<<4, 2, 4>>, <<4, 2, 4>>>>,
    <<<<4, 2, 5>>, <<4, 2, 5>>>>, <<<<4, 2, 6>>, <<4, 2, 6>>>>,
    <<<<4, 3, 0>>, <<4, 3, 0>>>>, <<<<4, 3, 1>>, <<4, 3, 1>>>>,
    <<<<4, 3, 2>>, <<4, 3, 2>>>>, <<<<4, 3, 3>>, <<4, 3, 3>>>>,
    <<<<4, 3, 4>>, <<4, 3, 4>>>>, <<<<4, 3, 5>>, <<4, 3, 5>>>>,
    <<<<4, 3, 6>>, <<4, 3, 6>>>>, <<<<4, 3, 7>>, <<4, 3, 7>>>>,
    <<<<4, 4, 0>>, <<4, 4, 0>>>>, <<<<4, 4, 1>>, <<4, 4, 1>>>>,
    <<<<4, 4, 2>>, <<4, 4, 2>>>>, <<<<4, 4, 3>>, <<4, 4, 3>>>>,
    <<<<4, 4, 4>>, <<4, 4, 4>>>>, <<<<4, 4, 5>>, <<4, 4, 5>>>>,
    <<<<4, 4, 6>>, <<4, 4, 6>>>>, <<<<4, 4, 7>>, <<4, 4, 7>>>>,
    <<<<4, 4, 8>>, <<4, 4, 8>>>>
>>

\* the entries of SymbolicDispatcher::table_ that hold a function
SymbolicRegistered == {SymbolicAssignments[k][1] : k \in DOMAIN SymbolicAssignments}

\* the function triple the last assignment to table_[w] names
SymbolicTarget(w) ==
    LET k == CHOOSE k \in DOMAIN SymbolicAssignments :
                 /\ SymbolicAssignments[k][1] = w
                 /\ \A j \in DOMAIN SymbolicAssignments :
                      SymbolicAssignments[j][1] = w => j <= k
    IN  SymbolicAssignments[k][2]

\* TMPDispatcher::compute(nA, nB, t, PA, PB, p)
TMPDispatcher_compute(a, b, tt, PA, PB, p) ==
    IF a < 0 \/ a > MAX_NA \/ b < 0 \/ b > MAX_NB \/ tt < 0 \/ tt > MAX_N \/ tt > a + b
      THEN Vec8d(0)
    ELSE IF <<a, b, tt>> \notin TMPRegistered
      THEN Vec8d(0)
    ELSE HermiteE(a, b, tt, PA, PB, p)

\* SymbolicDispatcher::compute(nA, nB, t, PA, PB, one_over_2p)
SymbolicDispatcher_compute(a, b, tt, PA, PB, o2p) ==
    IF a < 0 \/ a > MAX_NA \/ b < 0 \/ b > MAX_NB \/ tt < 0 \/ tt > MAX_N \/ tt > a + b
      THEN Vec8d(0)
    ELSE IF <<a, b, tt>> \notin SymbolicRegistered
      THEN Vec8d(0)
    ELSE LET f == SymbolicTarget(<<a, b, tt>>)
         IN  hermite_e_symbolic(f[1], f[2], f[3], PA, PB, o2p)

\* template arguments of the direct calls go down to -MaxNeg
MaxNeg == 2
\* largest t, u, v of a direct coulomb_r call
MaxDirectL == 2
\* largest auxiliary order N of a direct coulomb_r call
MaxDirectN == 1

\* the table handed to a direct coulomb_r call: long enough for every index
\* N + t + u + v the call can reach
DirectBoys == BoysCycle(MaxDirectN + 3 * MaxDirectL)

InitB ==
    /\ bpc = "idle"
    /\ hReq = [nA |-> 0, nB |-> 0, t |-> 0, g |-> UnitGeom]
    /\ cReq = [t |-> 0, u |-> 0, v |-> 0, N |-> 0, g |-> UnitGeom, B |-> DirectBoys]
    /\ hVal = Zero /\ hSym = Zero /\ cVal = Zero
    /\ dTmp = Zero /\ dSym = Zero
    /\ pReq = [t |-> 0, u |-> 0, v |-> 0, N |-> 0, g |-> UnitGeom, B |-> BoysCycle(0)]
    /\ pVal = Zero
    /\ pReads = {}
    /\ kReq = [t |-> 0, u |-> 0, v |-> 0, N |-> 0, g |-> UnitGeom, B |-> BoysCycle(3)]
    /\ kVal = Zero

\* a caller instantiates hermite_e<a, b, tt>(PA, PB, p) with any integers
BCallE ==
    /\ Idle
    /\ \E a \in (-MaxNeg)..MAX_L, b \in (-MaxNeg)..MAX_L,
          tt \in (-MaxNeg)..(MAX_T + 1), g \in GeomSet :
         hReq' = [nA |-> a, nB |-> b, t |-> tt, g |-> g]
    /\ bpc' = "E"
    /\ UNCHANGED <<cReq, hVal, hSym, cVal>>
    /\ UNCHANGED <<varsD, varsP, varsK>>
    /\ UNCHANGED <<varsR, varsE, varsG, varsX, varsU, varsM, calls>>

\* return HermiteE<nA, nB, t>::compute(PA, PB, p)
BHermiteE ==
    /\ bpc = "E"
    /\ hVal' = HermiteE(hReq.nA, hReq.nB, hReq.t, hReq.g.PA, hReq.g.PB, hReq.g.p)
    /\ bpc' = "sym"
    /\ UNCHANGED <<hReq, cReq, hSym, cVal>>
    /\ UNCHANGED <<varsD, varsP, varsK>>
    /\ UNCHANGED <<varsR, varsE, varsG, varsX, varsU, varsM, calls>>

\* dispatch_hermite_e_symbolic(nA, nB, t, PA, PB, 1/(2p))
BSymE ==
    /\ bpc = "sym"
    /\ hSym' = dispatch_hermite_e_symbolic(hReq.nA, hReq.nB, hReq.t, hReq.g.PA,
                                           hReq.g.PB, OneOver2p(hReq.g.p))
    /\ bpc' = "doneE"
    /\ UNCHANGED <<hReq, cReq, hVal, cVal>>
    /\ UNCHANGED <<varsD, varsP, varsK>>
    /\ UNCHANGED <<varsR, varsE, varsG, varsX, varsU, varsM, calls>>

\* computeTMP(nA, nB, t, PA, PB, p) and computeSymbolic(nA, nB, t, PA, PB,
\* 1/(2p)) for the same request
BDispatch ==
    /\ bpc = "doneE"
    /\ dTmp' = TMPDispatcher_compute(hReq.nA, hReq.nB, hReq.t, hReq.g.PA, hReq.g.PB,
                                     hReq.g.p)
    /\ dSym' = SymbolicDispatcher_compute(hReq.nA, hReq.nB, hReq.t, hReq.g.PA,
                                          hReq.g.PB, OneOver2p(hReq.g.p))
    /\ bpc' = "doneD"
    /\ UNCHANGED <<hReq, cReq, hVal, hSym, cVal>>
    /\ UNCHANGED <<varsP, varsK>>
    /\ UNCHANGED <<varsR, varsE, varsG, varsX, varsU, varsM, calls>>

\* a caller instantiates coulomb_r<t, u, v, N>(PCx, PCy, PCz, Boys) with any
\* integers
BCallR ==
    /\ Idle
    /\ \E ct \in (-MaxNeg)..MaxDirectL, cu \in (-MaxNeg)..MaxDirectL,
          cv \in (-MaxNeg)..MaxDirectL, cN \in (-1)..MaxDirectN, g \in GeomSet :
         cReq' = [t |-> ct, u |-> cu, v |-> cv, N |-> cN, g |-> g, B |-> DirectBoys]
    /\ bpc' = "R"
    /\ UNCHANGED <<hReq, hVal, hSym, cVal>>
    /\ UNCHANGED <<varsD, varsP, varsK>>
    /\ UNCHANGED <<varsR, varsE, varsG, varsX, varsU, varsM, calls>>

\* return CoulombR<t, u, v, N>::compute(PCx, PCy, PCz, Boys)
BCoulombR ==
    /\ bpc = "R"
    /\ cVal' = CoulombR(cReq.t, cReq.u, cReq.v, cReq.N, cReq.g.PCx, cReq.g.PCy,
                        cReq.g.PCz, cReq.B)
    /\ bpc' = "doneR"
    /\ UNCHANGED <<hReq, cReq, hVal, hSym>>
    /\ UNCHANGED <<varsD, varsP, varsK>>
    /\ UNCHANGED <<varsR, varsE, varsG, varsX, varsU, varsM, calls>>

\* ------------------------------------------------------------------------
\* CoulombRDerivPCx<t,u,v,N>::compute (coulomb_aux.hpp)
\* ------------------------------------------------------------------------
\* CoulombR<t,u,v,N>::compute on a table that may be too short: a read outside
\* the table gives junk
RECURSIVE CoulombRAt(_, _, _, _, _, _, _, _, _)
CoulombRAt(t_, u_, v_, N_, PCx, PCy, PCz, B, junk) ==
    IF t_ = 0 /\ u_ = 0 /\ v_ = 0 /\ N_ >= 0 THEN
        BoysAt(B, N_, junk)
    ELSE IF t_ > 0 /\ u_ >= 0 /\ v_ >= 0 /\ N_ >= 0 THEN
        RAdd[RMul[PCx, CoulombRAt(t_ - 1, u_, v_, N_ + 1, PCx, PCy, PCz, B, junk)],
             RMul[Vec8d(t_ - 1), CoulombRAt(t_ - 2, u_, v_, N_ + 1, PCx, PCy, PCz, B, junk)]]
    ELSE IF t_ = 0 /\ u_ > 0 /\ v_ >= 0 /\ N_ >= 0 THEN
        RAdd[RMul[PCy, CoulombRAt(0, u_ - 1, v_, N_ + 1, PCx, PCy, PCz, B, junk)],
             RMul[Vec8d(u_ - 1), CoulombRAt(0, u_ - 2, v_, N_ + 1, PCx, PCy, PCz, B, junk)]]
    ELSE IF t_ = 0 /\ u_ = 0 /\ v_ > 0 /\ N_ >= 0 THEN
        RAdd[RMul[PCz, CoulombRAt(0, 0, v_ - 1, N_ + 1, PCx, PCy, PCz, B, junk)],
             RMul[Vec8d(v_ - 1), CoulombRAt(0, 0, v_ - 2, N_ + 1, PCx, PCy, PCz, B, junk)]]
    ELSE
        InvalidCase

\* the indices of Boys that CoulombR<t,u,v,N>::compute reads: Boys[N] in the
\* base case, the reads of both operands in a recurrence, none in the primary
\* template
RECURSIVE CoulombRReads(_, _, _, _)
CoulombRReads(t_, u_, v_, N_) ==
    IF t_ = 0 /\ u_ = 0 /\ v_ = 0 /\ N_ >= 0 THEN
        {N_}
    ELSE IF t_ > 0 /\ u_ >= 0 /\ v_ >= 0 /\ N_ >= 0 THEN
        CoulombRReads(t_ - 1, u_, v_, N_ + 1) \cup CoulombRReads(t_ - 2, u_, v_, N_ + 1)
    ELSE IF t_ = 0 /\ u_ > 0 /\ v_ >= 0 /\ N_ >= 0 THEN
        CoulombRReads(0, u_ - 1, v_, N_ + 1) \cup CoulombRReads(0, u_ - 2, v_, N_ + 1)
    ELSE IF t_ = 0 /\ u_ = 0 /\ v_ > 0 /\ N_ >= 0 THEN
        CoulombRReads(0, 0, v_ - 1, N_ + 1) \cup CoulombRReads(0, 0, v_ - 2, N_ + 1)
    ELSE
        {}

\* CoulombRDerivPCx<t,u,v,N>::compute(PCx, PCy, PCz, Boys, p); a read outside
\* the table gives junk
RECURSIVE CoulombRDerivPCx(_, _, _, _, _, _, _, _, _, _)
CoulombRDerivPCx(t_, u_, v_, N_, PCx, PCy, PCz, B, p, junk) ==
    IF t_ = 0 /\ u_ = 0 /\ v_ = 0 /\ N_ >= 0 THEN
        RMul[RMul[RMul[Vec8d(-2), p], PCx], BoysAt(B, N_ + 1, junk)]
    ELSE IF t_ > 0 /\ u_ >= 0 /\ v_ >= 0 /\ N_ >= 0 THEN
        LET extra == CoulombRAt(t_ - 1, u_, v_, N_ + 1, PCx, PCy, PCz, B, junk)
            term1 == RMul[PCx, CoulombRDerivPCx(t_ - 1, u_, v_, N_ + 1, PCx, PCy, PCz,
                                                B, p, junk)]
            term2 == RMul[Vec8d(t_ - 1),
                          CoulombRDerivPCx(t_ - 2, u_, v_, N_ + 1, PCx, PCy, PCz,
                                           B, p, junk)]
        IN  RAdd[RAdd[extra, term1], term2]
    ELSE IF t_ = 0 /\ u_ > 0 /\ v_ >= 0 /\ N_ >= 0 THEN
        LET term1 == RMul[PCy, CoulombRDerivPCx(0, u_ - 1, v_, N_ + 1, PCx, PCy, PCz,
                                                B, p, junk)]
            term2 == RMul[Vec8d(u_ - 1),
                          CoulombRDerivPCx(0, u_ - 2, v_, N_ + 1, PCx, PCy, PCz,
                                           B, p, junk)]
        IN  RAdd[term1, term2]
    ELSE IF t_ = 0 /\ u_ = 0 /\ v_ > 0 /\ N_ >= 0 THEN
        LET term1 == RMul[PCz, CoulombRDerivPCx(0, 0, v_ - 1, N_ + 1, PCx, PCy, PCz,
                                                B, p, junk)]
            term2 == RMul[Vec8d(v_ - 1),
                          CoulombRDerivPCx(0, 0, v_ - 2, N_ + 1, PCx, PCy, PCz,
                                           B, p, junk)]
        IN  RAdd[term1, term2]
    ELSE
        Vec8d(0)

\* the indices of Boys that CoulombRDerivPCx<t,u,v,N>::compute reads:
\* Boys[N + 1] in the base case, the reads of every operand in a recurrence
\* (those of CoulombR<t-1,u,v,N+1> included), none in the primary template
RECURSIVE DerivPCxReads(_, _, _, _)
DerivPCxReads(t_, u_, v_, N_) ==
    IF t_ = 0 /\ u_ = 0 /\ v_ = 0 /\ N_ >= 0 THEN
        {N_ + 1}
    ELSE IF t_ > 0 /\ u_ >= 0 /\ v_ >= 0 /\ N_ >= 0 THEN
        CoulombRReads(t_ - 1, u_, v_, N_ + 1)
            \cup DerivPCxReads(t_ - 1, u_, v_, N_ + 1)
            \cup DerivPCxReads(t_ - 2, u_, v_, N_ + 1)
    ELSE IF t_ = 0 /\ u_ > 0 /\ v_ >= 0 /\ N_ >= 0 THEN
        DerivPCxReads(0, u_ - 1, v_, N_ + 1) \cup DerivPCxReads(0, u_ - 2, v_, N_ + 1)
    ELSE IF t_ = 0 /\ u_ = 0 /\ v_ > 0 /\ N_ >= 0 THEN
        DerivPCxReads(0, 0, v_ - 1, N_ + 1) \cup DerivPCxReads(0, 0, v_ - 2, N_ + 1)
    ELSE
        {}

\* a caller instantiates coulomb_r_deriv_PCx<t, u, v, N>(PCx, PCy, PCz, Boys, p)
\* with a table of N + t + u + v + 1 or N + t + u + v + 2 entries
BCallP ==
    /\ Idle
    /\ \E ct \in 0..MaxDirectL, cu \in 0..MaxDirectL, cv \in 0..MaxDirectL,
          cN \in 0..MaxDirectN, g \in GeomSet, extra \in 0..1 :
         pReq' = [t |-> ct, u |-> cu, v |-> cv, N |-> cN, g |-> g,
                  B |-> BoysCycle(cN + ct + cu + cv + extra)]
    /\ bpc' = "P"
    /\ UNCHANGED <<hReq, cReq, hVal, hSym, cVal, varsD, pVal, pReads, varsK>>
    /\ UNCHANGED <<varsR, varsE, varsG, varsX, varsU, varsM, calls>>

\* return CoulombRDerivPCx<t, u, v, N>::compute(PCx, PCy, PCz, Boys, p)
BDerivPCx ==
    /\ bpc = "P"
    /\ LET rd == DerivPCxReads(pReq.t, pReq.u, pReq.v, pReq.N)
       IN  /\ pReads' = rd
           /\ \E junk \in (IF rd \subseteq DOMAIN pReq.B THEN {Zero} ELSE Junk) :
                pVal' = CoulombRDerivPCx(pReq.t, pReq.u, pReq.v, pReq.N, pReq.g.PCx,
                                         pReq.g.PCy, pReq.g.PCz, pReq.B, pReq.g.p, junk)
    /\ bpc' = "doneP"
    /\ UNCHANGED <<hReq, cReq, hVal, hSym, cVal, varsD, pReq, varsK>>
    /\ UNCHANGED <<varsR, varsE, varsG, varsX, varsU, varsM, calls>>

\* ------------------------------------------------------------------------
\* mcmd_coulomb::CoulombRCoeffLayer<t,u,v> and CoulombRCoeff<t,u,v,N>
\* (coulomb_r_layered_codegen.hpp)
\* ------------------------------------------------------------------------
\* largest t + u + v of a CoulombRCoeff call
MaxCoeffL == 4

\* static constexpr int N_VALUES of CoulombRCoeffLayer<t,u,v>: 0 in the primary
\* template, 4 in the base layer, (t + u + v) + 4 in the recurrence layers
CoeffNValues(t_, u_, v_) ==
    IF t_ = 0 /\ u_ = 0 /\ v_ = 0 THEN 4
    ELSE IF t_ >= 0 /\ u_ >= 0 /\ v_ >= 0 THEN (t_ + u_ + v_) + 4
    ELSE 0

\* Vec8d prev[n] = {} after the callee wrote its values w to it through the
\* pointer: the entries the callee assigned, zero elsewhere
Filled(n, w) == [k \in 0..(n - 1) |-> IF k \in DOMAIN w THEN w[k] ELSE Zero]

\* CoulombRCoeffLayer<t,u,v>::compute(out, PCx, PCy, PCz, Boys): the values it
\* assigns to out[0 .. N_VALUES-1] (none in the primary template).  Boys in
\* the base layer is the fifth argument; a read outside the table gives junk.
RECURSIVE CoulombRCoeffLayer(_, _, _, _, _, _, _, _)
CoulombRCoeffLayer(t_, u_, v_, PCx, PCy, PCz, B, junk) ==
    LET n == CoeffNValues(t_, u_, v_)
    IN  IF t_ = 0 /\ u_ = 0 /\ v_ = 0 THEN
            [k \in 0..(n - 1) |-> BoysAt(B, k, junk)]
        ELSE IF t_ > 0 /\ u_ >= 0 /\ v_ >= 0 THEN
            LET prev_0 == Filled(n + 1, CoulombRCoeffLayer(t_ - 1, u_, v_, PCx, PCy, PCz, B, junk))
                prev_1 == Filled(n + 1, CoulombRCoeffLayer(t_ - 2, u_, v_, PCx, PCy, PCz, B, junk))
            IN  [k \in 0..(n - 1) |->
                    RAdd[RMul[PCx, prev_0[k + 1]], RMul[Vec8d(t_ - 1), prev_1[k + 1]]]]
        ELSE IF t_ = 0 /\ u_ > 0 /\ v_ >= 0 THEN
            LET prev_0 == Filled(n + 1, CoulombRCoeffLayer(t_, u_ - 1, v_, PCx, PCy, PCz, B, junk))
                prev_1 == Filled(n + 1, CoulombRCoeffLayer(t_, u_ - 2, v_, PCx, PCy, PCz, B, junk))
            IN  [k \in 0..(n - 1) |->
                    RAdd[RMul[PCy, prev_0[k + 1]], RMul[Vec8d(u_ - 1), prev_1[k + 1]]]]
        ELSE IF t_ = 0 /\ u_ = 0 /\ v_ > 0 THEN
            LET prev_0 == Filled(n + 1, CoulombRCoeffLayer(t_, u_, v_ - 1, PCx, PCy, PCz, B, junk))
                prev_1 == Filled(n + 1, CoulombRCoeffLayer(t_, u_, v_ - 2, PCx, PCy, PCz, B, junk))
            IN  [k \in 0..(n - 1) |->
                    RAdd[RMul[PCz, prev_0[k + 1]], RMul[Vec8d(v_ - 1), prev_1[k + 1]]]]
        ELSE
            <<>>

\* CoulombRCoeff<t,u,v,N>::compute: Vec8d layer[(t + u + v) + 4];
\* CoulombRCoeffLayer<t,u,v>::compute(layer, ...); return layer[N].  An entry
\* of layer the callee did not assign, or outside layer, holds junk.
CoulombRCoeff(t_, u_, v_, N_, PCx, PCy, PCz, B, junk) ==
    LET w == CoulombRCoeffLayer(t_, u_, v_, PCx, PCy, PCz, B, junk)
    IN  IF N_ \in DOMAIN w /\ N_ < (t_ + u_ + v_) + 4 THEN w[N_] ELSE junk

\* a caller instantiates CoulombRCoeff<t, u, v, N>::compute(PCx, PCy, PCz,
\* Boys) with a table of t + u + v + 1 entries, or of four entries or more
BCallK ==
    /\ Idle
    /\ \E ct \in 0..MaxCoeffL, cu \in 0..MaxCoeffL, cv \in 0..MaxCoeffL,
          cN \in 0..MaxDirectN, g \in GeomSet, long \in BOOLEAN :
         /\ ct + cu + cv <= MaxCoeffL
         /\ kReq' = [t |-> ct, u |-> cu, v |-> cv, N |-> cN, g |-> g,
                     B |-> BoysCycle(IF long THEN cN + ct + cu + cv + 3
                                             ELSE cN + ct + cu + cv)]
    /\ bpc' = "K"
    /\ UNCHANGED <<hReq, cReq, hVal, hSym, cVal, varsD, varsP, kVal>>
    /\ UNCHANGED <<varsR, varsE, varsG, varsX, varsU, varsM, calls>>

\* return CoulombRCoeff<t, u, v, N>::compute(PCx, PCy, PCz, Boys)
BCoeff ==
    /\ bpc = "K"
    /\ \E junk \in (IF 0..3 \subseteq DOMAIN kReq.B THEN {Zero} ELSE Junk) :
         kVal' = CoulombRCoeff(kReq.t, kReq.u, kReq.v, kReq.N, kReq.g.PCx,
                               kReq.g.PCy, kReq.g.PCz, kReq.B, junk)
    /\ bpc' = "doneK"
    /\ UNCHANGED <<hReq, cReq, hVal, hSym, cVal, varsD, varsP, kReq>>
    /\ UNCHANGED <<varsR, varsE, varsG, varsX, varsU, varsM, calls>>

\* ------------------------------------------------------------------------
\* BottomUpHermiteE (bench_hermite_e_naive.cpp)
\* ------------------------------------------------------------------------
\* largest max_nA, max_nB a BottomUpHermiteE is constructed with
MaxBottomUp == 2

stride_nB_ == max_nB_ + 1
stride_t_ == max_nA_ + max_nB_ + 1

\* int index(int nA, int nB, int t) const
index(a, b, tt) == a * stride_nB_ * stride_t_ + b * stride_t_ + tt

\* 1.0 / (2.0 * p)
one_over_2p(p) == RDiv[Vec8d(1), RMul[Vec8d(2), p]]

InitU ==
    /\ upc = "idle"
    /\ max_nA_ = 0 /\ max_nB_ = 0
    /\ table_ = [k \in 0..0 |-> Zero]
    /\ ugeom = UnitGeom
    /\ ui = 0 /\ uj = 0 /\ ut = 0
    /\ uReq = <<0, 0, 0>>
    /\ uVal = Zero
    /\ uWrite = <<0, 0, 0>>
    /\ uReads = {}

\* BottomUpHermiteE solver(max_nA, max_nB); solver.compute(nA, nB, t, PA, PB, p)
\* up to the first loop: table_.resize(...), std::fill(..., Vec8d(0.0)),
\* table_[index(0, 0, 0)] = Vec8d(1.0).  The arguments nA, nB and t are used by
\* the return statement only and are drawn there.
UCall ==
    /\ Idle
    /\ \E mA \in 0..MaxBottomUp, mB \in 0..MaxBottomUp, g \in GeomSet :
         /\ max_nA_' = mA
         /\ max_nB_' = mB
         /\ ugeom' = g
         /\ table_' = [k \in 0..((mA + 1) * (mB + 1) * (mA + mB + 1) - 1) |->
                          IF k = 0 THEN Vec8d(1) ELSE Vec8d(0)]
         /\ upc' = IF mA >= 1 THEN "A" ELSE IF mB >= 1 THEN "B" ELSE "ret"
    /\ ui' = 1 /\ uj' = 1 /\ ut' = 0
    /\ uWrite' = <<0, 0, 0>>
    /\ uReads' = {}
    /\ UNCHANGED <<uReq, uVal>>
    /\ UNCHANGED <<varsR, varsE, varsG, varsX, varsB, varsM, calls>>

\* one assignment of the fill loops: the entry (a, b, tt) from the row
\* (a1, b1) it is derived from, with P = PA or PB
\*   tt = 0: P * table_[index(a1, b1, 0)] + table_[index(a1, b1, 1)]
\*   else  : one_over_2p * table_[index(a1, b1, tt-1)] + P * table_[index(a1, b1, tt)]
\*           + Vec8d(tt + 1) * table_[index(a1, b1, tt+1)]
Fill(P, a, b, tt, a1, b1) ==
    LET rd == IF tt = 0 THEN {index(a1, b1, 0), index(a1, b1, 1)}
              ELSE {index(a1, b1, tt - 1), index(a1, b1, tt), index(a1, b1, tt + 1)}
    IN  /\ \E junk \in (IF rd \subseteq DOMAIN table_ THEN {Zero} ELSE Junk) :
             LET val == IF tt = 0
                    THEN RAdd[RMul[P, At(table_, index(a1, b1, 0), junk)],
                              At(table_, index(a1, b1, 1), junk)]
                    ELSE RAdd[RAdd[RMul[one_over_2p(ugeom.p),
                                        At(table_, index(a1, b1, tt - 1), junk)],
                                   RMul[P, At(table_, index(a1, b1, tt), junk)]],
                              RMul[Vec8d(tt + 1),
                                   At(table_, index(a1, b1, tt + 1), junk)]]
             IN  table_' = Put(table_, index(a, b, tt), val)
        /\ uReads' = rd
        /\ uWrite' = <<a, b, tt>>

\* Fill A-side (nB = 0), one iteration of the (i, ti) loop nest
UFillA ==
    /\ upc = "A"
    /\ Fill(ugeom.PA, ui, 0, ut, ui - 1, 0)
    /\ IF ut + 1 <= ui
         THEN /\ ut' = ut + 1
              /\ UNCHANGED <<ui, uj, upc>>
         ELSE IF ui + 1 <= max_nA_
           THEN /\ ui' = ui + 1
                /\ ut' = 0
                /\ UNCHANGED <<uj, upc>>
           ELSE /\ ui' = 1
                /\ uj' = 1
                /\ ut' = 0
                /\ upc' = IF max_nB_ >= 1 THEN "B" ELSE "ret"
    /\ UNCHANGED <<max_nA_, max_nB_, ugeom, uReq, uVal>>
    /\ UNCHANGED <<varsR, varsE, varsG, varsX, varsB, varsM, calls>>

\* Fill B-side (nA = 0), one iteration of the (j, tj) loop nest
UFillB ==
    /\ upc = "B"
    /\ Fill(ugeom.PB, 0, uj, ut, 0, uj - 1)
    /\ IF ut + 1 <= uj
         THEN /\ ut' = ut + 1
              /\ UNCHANGED <<ui, uj, upc>>
         ELSE IF uj + 1 <= max_nB_
           THEN /\ uj' = uj + 1
                /\ ut' = 0
                /\ UNCHANGED <<ui, upc>>
           ELSE /\ ui' = 1
                /\ uj' = 1
                /\ ut' = 0
                /\ upc' = IF max_nA_ >= 1 THEN "mixed" ELSE "ret"
    /\ UNCHANGED <<max_nA_, max_nB_, ugeom, uReq, uVal>>
    /\ UNCHANGED <<varsR, varsE, varsG, varsX, varsB, varsM, calls>>

\* Fill mixed (nA > 0, nB > 0), one iteration of the (i, j, tij) loop nest
UFillMixed ==
    /\ upc = "mixed"
    /\ Fill(ugeom.PA, ui, uj, ut, ui - 1, uj)
    /\ IF ut + 1 <= ui + uj
         THEN /\ ut' = ut + 1
              /\ UNCHANGED <<ui, uj, upc>>
         ELSE IF uj + 1 <= max_nB_
           THEN /\ uj' = uj + 1
                /\ ut' = 0
                /\ UNCHANGED <<ui, upc>>
           ELSE IF ui + 1 <= max_nA_
             THEN /\ ui' = ui + 1
                  /\ uj' = 1
                  /\ ut' = 0
                  /\ UNCHANGED upc
             ELSE /\ upc' = "ret"
                  /\ UNCHANGED <<ui, uj, ut>>
    /\ UNCHANGED <<max_nA_, max_nB_, ugeom, uReq, uVal>>
    /\ UNCHANGED <<varsR, varsE, varsG, varsX, varsB, varsM, calls>>

\* return table_[index(nA, nB, t)], for the arguments nA, nB, t of the call
UReturn ==
    /\ upc = "ret"
    /\ \E a \in 0..max_nA_, b \in 0..max_nB_ :
         \E tt \in 0..(a + b) :
           /\ uReq' = <<a, b, tt>>
           /\ uReads' = {index(a, b, tt)}
           /\ \E junk \in (IF index(a, b, tt) \in DOMAIN table_ THEN {Zero} ELSE Junk) :
                uVal' = At(table_, index(a, b, tt), junk)
    /\ upc' = "done"
    /\ UNCHANGED <<max_nA_, max_nB_, table_, ugeom, ui, uj, ut, uWrite>>
    /\ UNCHANGED <<varsR, varsE, varsG, varsX, varsB, varsM, calls>>

\* ------------------------------------------------------------------------
\* NaiveHermiteE (bench_hermite_e_naive.cpp)
\* ------------------------------------------------------------------------
\* largest max_nA, max_nB a NaiveHermiteE is constructed with
MaxNaive == 2
\* number of compute calls made on one NaiveHermiteE object
MaxNaiveCalls == 2

max_t_ == naive_max_nA + naive_max_nB

\* (max_nA + 1) * (max_nB + 1) * (max_t_ + 1)
CacheSize == (naive_max_nA + 1) * (naive_max_nB + 1) * (max_t_ + 1)

\* NaiveHermiteE::index
cacheIndex(a, b, tt) ==
    a * (naive_max_nB + 1) * (max_t_ + 1) + b * (max_t_ + 1) + tt

InitM ==
    /\ mpc = "idle"
    /\ naive_max_nA = 0 /\ naive_max_nB = 0
    /\ cache_ = <<>>
    /\ computed_ = <<>>
    /\ PA_ = Zero /\ PB_ = Zero /\ one_over_2p_ = Zero
    /\ mReq = <<0, 0, 0>>
    /\ mVal = Zero
    /\ mCalls = 0
    /\ mgeom = UnitGeom
    /\ mHits = {}

\* NaiveHermiteE solver(max_nA, max_nB): cache_.resize(...) value-initializes
\* the entries; computed_ stays empty
NConstruct ==
    /\ Idle
    /\ \E mA \in 0..MaxNaive, mB \in 0..MaxNaive :
         /\ naive_max_nA' = mA
         /\ naive_max_nB' = mB
         /\ cache_' = [k \in 0..((mA + 1) * (mB + 1) * (mA + mB + 1) - 1) |-> Zero]
    /\ computed_' = <<>>
    /\ mpc' = "ready"
    /\ mCalls' = 0
    /\ UNCHANGED <<PA_, PB_, one_over_2p_, mReq, mVal, mgeom, mHits>>
    /\ UNCHANGED <<varsR, varsE, varsG, varsX, varsB, varsU, calls>>

\* slip: the flags are left as the last call set them
ClearComputed_mut(c, n) ==
    [k \in 0..(n - 1) |-> IF k \in DOMAIN c THEN c[k] ELSE FALSE]

\* std::fill(computed_.begin(), computed_.end(), false);
\* computed_.resize(n, false)
ClearComputed(c, n) == [k \in 0..(n - 1) |-> FALSE]

\* compute(nA, nB, t, PA, PB, p) up to the call of computeRecursive.  The first
\* call takes any request within the constructed maxima; a call that follows
\* another one is made after a request for the largest shell at the geometry
\* Geoms[1], and takes any request at one of RepeatGeoms.
NCompute ==
    /\ \/ mpc = "ready"
       \/ /\ mpc = "done"
          /\ mCalls < MaxNaiveCalls
          /\ mReq[1] = naive_max_nA /\ mReq[2] = naive_max_nB
          /\ mgeom = Geoms[1]
    /\ \E a \in 0..naive_max_nA, b \in 0..naive_max_nB :
         \E tt \in 0..(a + b) : mReq' = <<a, b, tt>>
    /\ \E g \in (IF mpc = "ready" THEN GeomSet ELSE RepeatGeoms) :
         /\ mgeom' = g
         /\ PA_' = g.PA
         /\ PB_' = g.PB
         /\ one_over_2p_' = RDiv[Vec8d(1), RMul[Vec8d(2), g.p]]
    /\ computed_' = ClearComputed(computed_, CacheSize)
    /\ mHits' = {}
    /\ mpc' = "cleared"
    /\ UNCHANGED <<naive_max_nA, naive_max_nB, cache_, mVal, mCalls>>
    /\ UNCHANGED <<varsR, varsE, varsG, varsX, varsB, varsU, calls>>

\* cache_[idx] = result; computed_[idx] = true; return result
Memoize(i, result, m) ==
    [val |-> result,
     cache |-> Put(m.cache, i, result),
     computed |-> Put(m.computed, i, TRUE),
     hits |-> m.hits]

\* computeRecursive(nA, nB, t) on the memo m = [cache, computed, hits]: the
\* value returned and the memo it leaves.  The recursive calls of one
\* expression run left to right; their order does not change what they return.
RECURSIVE computeRecursive(_, _, _, _)
computeRecursive(a, b, tt, m) ==
    IF a < 0 \/ b < 0 \/ tt < 0 \/ tt > a + b THEN
        [val |-> Vec8d(0), cache |-> m.cache, computed |-> m.computed, hits |-> m.hits]
    ELSE IF a = 0 /\ b = 0 /\ tt = 0 THEN
        [val |-> Vec8d(1), cache |-> m.cache, computed |-> m.computed, hits |-> m.hits]
    ELSE IF At(m.computed, cacheIndex(a, b, tt), FALSE) THEN
        [val |-> m.cache[cacheIndex(a, b, tt)], cache |-> m.cache,
         computed |-> m.computed, hits |-> m.hits \cup {cacheIndex(a, b, tt)}]
    ELSE IF a > 0 THEN
        IF tt = 0 THEN
            LET r1 == computeRecursive(a - 1, b, 0, m)
                r2 == computeRecursive(a - 1, b, 1, r1)
            IN  Memoize(cacheIndex(a, b, tt),
                        RAdd[RMul[PA_, r1.val], r2.val], r2)
        ELSE
            LET r1 == computeRecursive(a - 1, b, tt - 1, m)
                r2 == computeRecursive(a - 1, b, tt, r1)
                r3 == computeRecursive(a - 1, b, tt + 1, r2)
            IN  Memoize(cacheIndex(a, b, tt),
                        RAdd[RAdd[RMul[one_over_2p_, r1.val], RMul[PA_, r2.val]],
                             RMul[Vec8d(tt + 1), r3.val]], r3)
    ELSE IF b > 0 THEN
        IF tt = 0 THEN
            LET r1 == computeRecursive(0, b - 1, 0, m)
                r2 == computeRecursive(0, b - 1, 1, r1)
            IN  Memoize(cacheIndex(a, b, tt),
                        RAdd[RMul[PB_, r1.val], r2.val], r2)
        ELSE
            LET r1 == computeRecursive(0, b - 1, tt - 1, m)
                r2 == computeRecursive(0, b - 1, tt, r1)
                r3 == computeRecursive(0, b - 1, tt + 1, r2)
            IN  Memoize(cacheIndex(a, b, tt),
                        RAdd[RAdd[RMul[one_over_2p_, r1.val], RMul[PB_, r2.val]],
                             RMul[Vec8d(tt + 1), r3.val]], r3)
    ELSE
        Memoize(cacheIndex(a, b, tt), Vec8d(0), m)

\* return computeRecursive(nA, nB, t)
NRecurse ==
    /\ mpc = "cleared"
    /\ LET r == computeRecursive(mReq[1], mReq[2], mReq[3],
                    [cache |-> cache_, computed |-> computed_, hits |-> {}])
       IN  /\ mVal' = r.val
           /\ cache_' = r.cache
           /\ computed_' = r.computed
           /\ mHits' = r.hits
    /\ mCalls' = mCalls + 1
    /\ mpc' = "done"
    /\ UNCHANGED <<naive_max_nA, naive_max_nB, PA_, PB_, one_over_2p_, mReq, mgeom>>
    /\ UNCHANGED <<varsR, varsE, varsG, varsX, varsB, varsU, calls>>

\* ------------------------------------------------------------------------
\* Specification
\* ------------------------------------------------------------------------
Init == InitR /\ InitE /\ InitG /\ InitX /\ InitB /\ InitU /\ InitM /\ calls = 0

Next ==
    \/ RCall \/ RCompute0 \/ RInit \/ RHead \/ RZ \/ RY \/ RX \/ RSwap \/ RReturn
    \/ ECall \/ EDescendA \/ EDescendB \/ EBase \/ EReturn \/ EOpt
    \/ EA_T0 \/ EA_Mid \/ EA_Top \/ EB_T0 \/ EB_Mid \/ EB_Top
    \/ GCall \/ GDerivA \/ GDerivB \/ GDerivPA \/ GDerivPB \/ GSymPA \/ GSymPB
    \/ XStart \/ XStep
    \/ BCallE \/ BHermiteE \/ BSymE \/ BDispatch \/ BCallR \/ BCoulombR
    \/ BCallP \/ BDerivPCx \/ BCallK \/ BCoeff
    \/ RResume \/ EResume
    \/ UCall \/ UFillA \/ UFillB \/ UFillMixed \/ UReturn
    \/ NConstruct \/ NCompute \/ NRecurse

Spec == Init /\ [][Next]_vars

\* ------------------------------------------------------------------------
\* Properties
\* ------------------------------------------------------------------------
\* largest L_total for which the layered result is compared with the
\* brute-force recursion
MaxEquivL == 8

\* C1: for every L_total in 0..8 and every (t,u,v) with t+u+v <= L_total, the
\* entry at offset r_index(t,u,v) of the array CoulombRLayer<L_total>::compute
\* returns equals CoulombR<t,u,v,0>::compute on the same PC and Boys table.
C1_LayeredEqualsBruteForce ==
    (pc = "done" /\ L_total <= MaxEquivL) =>
        \A w \in Triples(L_total) :
            R[r_index(w[1], w[2], w[3])] =
                CoulombR(w[1], w[2], w[3], 0, geom.PCx, geom.PCy, geom.PCz, Boys)

\* a returned shell of degree >= 4 whose entries are not all the base value
C1_Witness ==
    /\ pc = "done"
    /\ L_total = 4
    /\ R[r_index(2, 1, 1)] # Zero
    /\ R[r_index(2, 1, 1)] # R[0]

\* C4: for every L in 0..4 and every offset i < tetrahedral(L), entry i of the
\* layered array equals entry i written by CoulombRSymbolic<L>::compute.
C4_LayeredEqualsSymbolic ==
    (pc = "done" /\ L_total <= MAX_SYMBOLIC_L) =>
        LET S == CoulombRSymbolic(L_total, geom.PCx, geom.PCy, geom.PCz, Boys)
        IN  /\ DOMAIN S = 0..(tetrahedral(L_total) - 1)
            /\ \A i \in DOMAIN S : R[i] = S[i]

C4_Witness ==
    /\ pc = "done"
    /\ L_total = MAX_SYMBOLIC_L
    /\ R[34] # R[20]
    /\ R[34] # Zero

\* C9: compute reads the Boys table only at indices in [0, L_total] (a table of
\* exactly L_total+1 entries suffices) and never writes to it.
C9_BoysReadOnlyInRange ==
    /\ [](boysReads \subseteq 0..L_total /\ boysReads \subseteq DOMAIN Boys)
    /\ [][pc # "idle" => Boys' = Boys]_vars

\* the last entry of a table of exactly L_total+1 entries has been read
C9_Witness ==
    /\ L_total = MAX_R_L
    /\ DOMAIN Boys = 0..L_total
    /\ boysReads = {L_total}

\* C10: while the shell at order N is built, every value a sub-recurrence
\* reads was assigned while the shell at order N+1 was built (total degree
\* <= L_total-N-1) or is its base case; nothing is read from the buffer being
\* written and no stale entry of an older shell is read.
C10_ReadsAlreadyComputed ==
    (pc \in {"z", "y", "x", "swap"}) =>
        /\ currReads = {}
        /\ prevInfo.order = N + 1
        /\ prevReads \subseteq prevInfo.def
        /\ prevReads \cap prevInfo.stale = {}
        /\ prevReads \subseteq 0..(tetrahedral(L_total - N - 1) - 1)

\* an x-recurrence step that read two entries of the previous shell while the
\* buffer being written still held entries of an older shell
C10_Witness ==
    /\ pc = "x"
    /\ Cardinality(prevReads) = 2
    /\ N = 0
    /\ L_total >= 3
    /\ currInfo.order = 0
    /\ prevInfo.order = 1

\* C2: for every (nA,nB,t) with 0 <= t <= nA+nB <= 8, entry t of the array
\* HermiteELayer<nA,nB>::compute(PA,PB,p) returns equals the brute-force
\* recursion HermiteE<nA,nB,t>::compute(PA,PB,p).
C2_LayerEqualsBruteForce ==
    (epc = "done" /\ nA + nB <= 8) =>
        \A tt \in 0..(nA + nB) :
            E[tt] = HermiteE(nA, nB, tt, egeom.PA, egeom.PB, egeom.p)

C2_Witness ==
    /\ epc = "done"
    /\ nA = MAX_L
    /\ nB = MAX_L
    /\ E[3] # Zero
    /\ E[nA + nB] # Zero

\* C3: for every L up to MAX_R_L, r_index restricted to the triples with
\* t+u+v <= L is a bijection onto {0,...,tetrahedral(L)-1}: no two triples
\* share an offset and no offset of the range is left unused.
C3_IndexBijection ==
    /\ (xpc \in {"loop", "done"}) =>
          /\ offsets \subseteq 0..(tetrahedral(xL) - 1)
          /\ Cardinality(offsets) = idx
    /\ (xpc = "done") =>
          /\ idx = Cardinality(Triples(xL))
          /\ offsets = 0..(tetrahedral(xL) - 1)

C3_Witness ==
    /\ xpc = "done"
    /\ xL = MAX_R_L
    /\ idx = MAX_R_SIZE

\* C5: translational invariance: HermiteDerivA<nA,nB,t>::compute +
\* HermiteDerivB<nA,nB,t>::compute = 0 for every (nA,nB,t), t <= nA+nB.
C5_TranslationalInvariance ==
    (gpc \in {"PA", "PB", "symPA", "symPB", "done"}) =>
        RAdd[dE_dA, dE_dB] = Zero

C5_Witness ==
    /\ gpc = "PA"
    /\ gReq.nA = 3
    /\ gReq.nB = 2
    /\ dE_dA # Zero
    /\ dE_dB # Zero

\* C6: for nA,nB in 0..4 and t <= nA+nB, HermiteDerivPA<nA,nB,t>::compute
\* (= nA * E^{nA-1,nB}_t) equals the generated partial derivative
\* hermite_dE_dPA_nA_nB_t, and HermiteDerivPB<nA,nB,t>::compute equals
\* hermite_dE_dPB_nA_nB_t.
C6_DirectEqualsGenerated ==
    (gpc = "done") =>
        /\ dE_dPA = sym_dPA
        /\ dE_dPB = sym_dPB

C6_Witness ==
    /\ gpc = "done"
    /\ gReq.nA = 2
    /\ gReq.nB = 2
    /\ gReq.t = 0
    /\ sym_dPA # Zero
    /\ sym_dPB # Zero
    /\ sym_dPA # sym_dPB

\* C7: for every in-range request no layer buffer is read or written out of
\* bounds: every index used on a Hermite layer array is in [0, MAX_T), every
\* offset used on curr and prev is in [0, tetrahedral(L_total)), and r_index
\* is never called with a negative argument.
C7_NoOutOfBounds ==
    /\ (nA + nB <= 2 * MAX_L) => eReads \cup eWrites \subseteq 0..(MAX_T - 1)
    /\ (pc # "idle") =>
          /\ prevReads \cup currReads \cup currWrites \subseteq 0..(tetrahedral(L_total) - 1)
          /\ \A w \in idxArgs : w[1] >= 0 /\ w[2] >= 0 /\ w[3] >= 0

\* the last offset of a shell buffer has just been written
C7_Witness ==
    /\ L_total = MaxEquivL
    /\ N = 0
    /\ currWrites = {tetrahedral(L_total) - 1}
    /\ Cardinality(prevReads) = 2

\* C8 as stated: producing the top entry t = nA+nB reads no entry of the
\* previous layer above that layer's top valid index nA+nB-1.
C8_TopReadsWithinValidRange ==
    (eStep = "top") => eReads \subseteq 0..ePrevTop

\* C8 as amended: producing the top entry reads the previous layer at
\* nA+nB-1 and nA+nB only; no statement reads more than one index above the
\* previous layer's top valid index, every index read is inside the array,
\* and every entry read above the valid range holds zero.
C8_ReadsAboveRangeAreZero ==
    (eStep \in {"t0", "mid", "top"}) =>
        /\ eReads \subseteq 0..(ePrevTop + 1)
        /\ (eStep = "top") => eReads = {ePrevTop, ePrevTop + 1}
        /\ (Top.nA + Top.nB <= 8) =>
              /\ eReads \subseteq 0..(MAX_T - 1)
              /\ \A i \in eReads : i > ePrevTop => Top.prev[i] = Zero

C8_Witness ==
    /\ eStep = "top"
    /\ Len(stack) = 1
    /\ nA = MAX_L
    /\ nB = MAX_L
    /\ eReads = {MAX_T - 2, MAX_T - 1}
    /\ Top.prev[MAX_T - 2] # Zero

\* C11: for every L_total >= 1 the array compute returns is the buffer that
\* holds the shell built in the last iteration (N = 0), for odd and for even
\* L_total; inside an iteration the previous shell is left alone, the two
\* buffers are exchanged (both contents kept) only between iterations, and
\* the array handed to the caller is never a shell of an order N > 0.
C11_ReturnsShellOfOrderZero ==
    /\ []((pc = "done" /\ L_total >= 1) =>
            /\ R = prev
            /\ prevInfo.order = 0
            /\ prevInfo.def = 0..(tetrahedral(L_total) - 1)
            /\ currInfo.order = 1)
    /\ [][(pc \in {"z", "y", "x"} \/ (pc = "head" /\ N >= 0)) => prev' = prev]_vars
    /\ [][pc = "swap" => (curr' = prev /\ prev' = curr)]_vars
    /\ [][R' # R => (pc = "entry" /\ L_total = 0) \/ (pc = "head" /\ N < 0)]_vars

\* a call with odd L_total has returned, and the buffer it did not return
\* holds a different shell
C11_Witness ==
    /\ pc = "done"
    /\ L_total = 3
    /\ R = prev
    /\ curr # prev
    /\ R[r_index(1, 1, 1)] # Zero

\* C12: the shell built at order N holds Boys[N] at offset 0 for every N from
\* L_total down to 0 (the seed shell of order L_total included), the recurrences
\* never overwrite that entry, the returned array has entry 0 equal to Boys[0],
\* and CoulombR<0,0,0,N>::compute returns Boys[N] for every N of the table.
C12_BaseEntryIsBoys ==
    /\ (pc \in {"z", "y", "x", "swap"}) =>
          /\ currInfo.order = N
          /\ curr[0] = Boys[N]
    /\ (pc \in {"head", "z", "y", "x", "swap"}) =>
          /\ prevInfo.order \in 0..L_total
          /\ prev[0] = Boys[prevInfo.order]
    /\ (pc = "done") => R[0] = Boys[0]
    /\ (pc # "idle") =>
          \A n \in DOMAIN Boys :
              CoulombR(0, 0, 0, n, geom.PCx, geom.PCy, geom.PCz, Boys) = Boys[n]

\* the x-recurrences of the shell of order 2 are running on a table whose
\* entries differ: offset 0 holds Boys[2] in one buffer and Boys[3] in the other
C12_Witness ==
    /\ pc = "x"
    /\ L_total = 5
    /\ N = 2
    /\ Boys = BoysCycle(5)
    /\ curr[0] = Vec8d(3)
    /\ prev[0] = Vec8d(1)
    /\ currWrites # {0}

\* C13: an index combination outside the valid range gives the value zero and
\* no error: HermiteE<nA,nB,t>::compute returns 0 whenever t > nA+nB or one of
\* nA, nB, t is negative, and CoulombR<t,u,v,N>::compute returns 0 whenever
\* one of t, u, v is negative, whatever the geometry and the table.
C13_OutOfRangeIsZero ==
    /\ (bpc \in {"sym", "doneE"}
         /\ (hReq.t > hReq.nA + hReq.nB \/ hReq.nA < 0 \/ hReq.nB < 0 \/ hReq.t < 0)) =>
            hVal = Zero
    /\ (bpc = "doneR" /\ (cReq.t < 0 \/ cReq.u < 0 \/ cReq.v < 0)) =>
            cVal = Zero

\* hermite_e<2,1,4> has returned: t is one above the top index of the shell
\* and every other argument is valid
C13_Witness ==
    /\ bpc = "doneE"
    /\ hReq.nA = 2
    /\ hReq.nB = 1
    /\ hReq.t = 4
    /\ hVal = Zero
    /\ hReq.g = Geoms[1]

\* number of pairs (u,v), u,v >= 0, with u + v <= M
RECURSIVE CountPairs(_)
CountPairs(M) == IF M < 0 THEN 0 ELSE CountPairs(M - 1) + (M + 1)

\* number of triples (t,u,v), t,u,v >= 0, with t + u + v <= K
RECURSIVE CountTriples(_)
CountTriples(K) == IF K < 0 THEN 0 ELSE CountTriples(K - 1) + CountPairs(K)

\* the sort key of a triple: total degree, then u+v, then v
Key(w) == <<w[1] + w[2] + w[3], w[2] + w[3], w[3]>>

LexLess(j, k) ==
    \/ j[1] < k[1]
    \/ j[1] = k[1] /\ j[2] < k[2]
    \/ j[1] = k[1] /\ j[2] = k[2] /\ j[3] < k[3]

\* C14: r_index(t,u,v) is the number of triples of total degree below t+u+v
\* (tetrahedral(t+u+v-1)) plus the number of pairs with sum below u+v
\* (triangular(u+v-1)) plus v, so offsets increase strictly with the
\* lexicographic order of (t+u+v, u+v, v); r_index(0,0,0) = 0, r_index(1,0,0)
\* = 1, r_index(0,1,0) = 2, r_index(0,0,1) = 3, r_index(2,0,0) = 4.
C14_IndexFormulaAndOrder ==
    (xpc \in {"loop", "done"} /\ idx > 0) =>
        LET w == xlast.w
        IN  /\ xlast.o = CountTriples(w[1] + w[2] + w[3] - 1)
                           + CountPairs(w[2] + w[3] - 1) + w[3]
            /\ xlast.o = tetrahedral(w[1] + w[2] + w[3] - 1)
                           + triangular(w[2] + w[3] - 1) + w[3]
            /\ \A w2 \in Triples(xL) :
                  LexLess(Key(w2), Key(w)) <=> r_index(w2[1], w2[2], w2[3]) < xlast.o
            /\ (w = <<0, 0, 0>>) => xlast.o = 0
            /\ (w = <<1, 0, 0>>) => xlast.o = 1
            /\ (w = <<0, 1, 0>>) => xlast.o = 2
            /\ (w = <<0, 0, 1>>) => xlast.o = 3
            /\ (w = <<2, 0, 0>>) => xlast.o = 4

\* the enumeration has just indexed (2,0,0), whose offset is the first of
\* degree 2, after the four offsets of the degrees 0 and 1
C14_Witness ==
    /\ xpc = "loop"
    /\ xL = MAX_SYMBOLIC_L
    /\ xlast = [w |-> <<2, 0, 0>>, o |-> 4]
    /\ {0, 1, 2, 3} \subseteq offsets

\* the chain of layers below and including (a, b): the A side is taken down
\* to 0 first, then the B side
Chain(a, b) ==
    [i \in 1..(a + b + 1) |-> IF i - 1 <= a THEN <<a - (i - 1), b>>
                                            ELSE <<0, b - (i - 1 - a)>>]

\* C15: one call of HermiteELayer<nA,nB>::compute enters compute of each
\* layer of its chain (nA,nB), (nA-1,nB), ..., (0,nB), (0,nB-1), ..., (0,0)
\* exactly once: nA+nB+1 layer evaluations in all, none repeated, whatever
\* the number of entries of the result.
C15_EachLayerOnce ==
    /\ (epc # "idle") =>
          /\ \A i, j \in 1..Len(eLayers) : eLayers[i] = eLayers[j] => i = j
          /\ Len(eLayers) <= nA + nB + 1
    /\ (epc \in {"ret", "t0", "mid", "top", "done"}) =>
          /\ Len(eLayers) = nA + nB + 1
          /\ eLayers = Chain(nA, nB)

\* a call whose chain runs down both sides has returned
C15_Witness ==
    /\ epc = "done"
    /\ nA = 3
    /\ nB = 2
    /\ Len(eLayers) = 6
    /\ eLayers[4] = <<0, 2>>
    /\ eLayers[6] = <<0, 0>>

\* C16: during one layered Hermite-E evaluation 1/(2p) is computed once and
\* reused by every layer step of the recursion, not computed again at each
\* recursive step.
C16_Inv2pComputedOnce ==
    (epc # "idle") => eDivs <= 1

\* the sub-recurrence evaluations of a whole sweep: tetrahedral(k) - 1 for the
\* shell of each degree k = 1..L
RECURSIVE SweepEvaluations(_)
SweepEvaluations(L) ==
    IF L <= 0 THEN 0 ELSE SweepEvaluations(L - 1) + (tetrahedral(L) - 1)

C18_LengthEqualsCount ==
    /\ (pc = "done") => Cardinality(DOMAIN R) = tetrahedral(L_total)
    /\ (epc = "done") => Cardinality(DOMAIN E) = nA + nB + 1

\* C18 as amended: the array returned has the fixed capacity of its type
\* whatever the supported shell, MAX_R_SIZE entries for CoulombRLayer, MAX_T for
\* HermiteELayer; count(L) (N_VALUES = tetrahedral(L_total), N = nA+nB+1) is
\* the number of its leading entries the shell occupies: the entries assigned
\* are exactly the first count(L), and count(L) does not exceed the capacity.
C18_ShellFillsLeadingEntries ==
    /\ (pc = "done") =>
          /\ DOMAIN R = 0..(MAX_R_SIZE - 1)
          /\ N_VALUES(L_total) <= MAX_R_SIZE
          /\ (L_total >= 1) => prevInfo.def = 0..(N_VALUES(L_total) - 1)
    /\ (epc = "ret" /\ Len(stack) = 1 /\ nA + nB <= 8) =>
          /\ DOMAIN Top.result = 0..(MAX_T - 1)
          /\ NValid(nA, nB) <= MAX_T
          /\ eWrites = {NValid(nA, nB) - 1}
    /\ (epc = "done") => DOMAIN E = 0..(MAX_T - 1)

\* a call for a shell of 10 values has returned an array of MAX_R_SIZE
\* entries whose first 10 were assigned
C18_Witness ==
    /\ pc = "done"
    /\ L_total = 2
    /\ Cardinality(DOMAIN R) = MAX_R_SIZE
    /\ prevInfo.def = 0..9
    /\ R[9] # Zero
    /\ R[10] = Zero

\* what CoulombRLayer<L>::compute returns as a function of its arguments
\* alone: the shell of order 0 at the offsets of its triples, zero elsewhere
ShellOf(L, g, B) ==
    [i \in 0..(MAX_R_SIZE - 1) |->
        LET W == {w \in Triples(L) : r_index(w[1], w[2], w[3]) = i}
        IN  IF W = {} THEN Zero
            ELSE LET w == CHOOSE x \in W : TRUE
                 IN  CoulombR(w[1], w[2], w[3], 0, g.PCx, g.PCy, g.PCz, B)]

\* what HermiteELayer<a,b>::compute returns as a function of its arguments
\* alone: E^{a,b}_t at the indices t <= a+b, zero elsewhere
LayerOf(a, b, g) ==
    [i \in 0..(MAX_T - 1) |->
        IF i <= a + b THEN HermiteE(a, b, i, g.PA, g.PB, g.p) ELSE Zero]

\* C19: an evaluator call is a deterministic function of its arguments and
\* shares no mutable state: the array a call returns is the same function of
\* the call's own arguments whether it is the first call of the program or
\* follows other evaluator calls, and while a call runs it changes neither
\* its arguments nor anything that belongs to the other evaluator or to an
\* array returned earlier.
C19_DeterministicAndIsolated ==
    /\ []((pc = "done" /\ L_total <= MaxRepeatL) => R = ShellOf(L_total, geom, Boys))
    /\ []((epc = "done" /\ nA + nB <= MaxRepeatL) => E = LayerOf(nA, nB, egeom))
    /\ [][pc \notin {"idle", "done"} => UNCHANGED <<L_total, geom, Boys, varsE>>]_vars
    /\ [][epc \notin {"idle", "done"} => UNCHANGED <<nA, nB, egeom, varsR>>]_vars

\* a second call has returned: HermiteELayer<1,1> after a call of
\* CoulombRLayer<2> whose array and buffers are still in memory
C19_Witness ==
    /\ calls = 1
    /\ epc = "done"
    /\ nA = 1 /\ nB = 1
    /\ E[2] # Zero
    /\ pc = "idle"
    /\ L_total = 2
    /\ R[9] # Zero
    /\ curr # ZeroR

\* PA * PB + 1/(2p) for a geometry
E110(g) == RAdd[RMul[g.PA, g.PB], Rat(g.p[2], 2 * g.p[1])]

\* C20: E^{1,1}_0 = PA*PB + 1/(2p) in every evaluator, for every geometry
\* with p # 0: HermiteE<1,1,0>::compute, entry 0 of HermiteELayer<1,1>::compute
\* and hermite_e_symbolic_1_1_0 given one_over_2p = 1/(2p); for PA = 0.5,
\* PB = -0.3, p = 2.0 the value is 0.10.
C20_E110ClosedForm ==
    /\ E110(Geoms[1]) = <<1, 10>>
    /\ (bpc \in {"sym", "doneE"} /\ hReq.nA = 1 /\ hReq.nB = 1 /\ hReq.t = 0) =>
          hVal = E110(hReq.g)
    /\ (bpc = "doneE" /\ hReq.nA = 1 /\ hReq.nB = 1 /\ hReq.t = 0) =>
          hSym = E110(hReq.g)
    /\ (epc = "done" /\ nA = 1 /\ nB = 1) =>
          E[0] = E110(egeom)

\* the recursion and the closed form have both returned 0.10 for the
\* geometry PA = 0.5, PB = -0.3, p = 2.0
C20_Witness ==
    /\ bpc = "doneE"
    /\ hReq = [nA |-> 1, nB |-> 1, t |-> 0, g |-> Geoms[1]]
    /\ hVal = <<1, 10>>
    /\ hSym = <<1, 10>>

\* C21: for every L_total >= 1 and every Boys table the entry R_{100}^{(0)},
\* at offset r_index(1,0,0) = 1, equals PCx * Boys[1] in the returned layered
\* array, in CoulombR<1,0,0,0>::compute and in CoulombRSymbolic<L_total>
\* (L_total <= 4); with PCx = 0.5, PCy = 0.3, PCz = 0.2 and Boys = [1,1,1,1,1]
\* the returned array has R_{000}^{(0)} = 1 and R_{100}^{(0)} = 0.5.
C21_R100IsPCxTimesBoys1 ==
    /\ r_index(1, 0, 0) = 1
    /\ (pc = "done" /\ L_total >= 1) =>
          LET want == RMul[geom.PCx, Boys[1]]
          IN  /\ R[r_index(1, 0, 0)] = want
              /\ CoulombR(1, 0, 0, 0, geom.PCx, geom.PCy, geom.PCz, Boys) = want
              /\ L_total <= MAX_SYMBOLIC_L =>
                    CoulombRSymbolic(L_total, geom.PCx, geom.PCy, geom.PCz,
                                     Boys)[r_index(1, 0, 0)] = want
    /\ (pc = "done" /\ L_total = 4 /\ geom = Geoms[1] /\ Boys = BoysOnes(4)) =>
          /\ R[r_index(0, 0, 0)] = Vec8d(1)
          /\ R[r_index(1, 0, 0)] = Half
    /\ (bpc = "doneR" /\ cReq.t = 1 /\ cReq.u = 0 /\ cReq.v = 0 /\ cReq.N = 0) =>
          cVal = RMul[cReq.g.PCx, cReq.B[1]]

\* the scenario of the specification has returned: L_total = 4, PC = (0.5,
\* 0.3, 0.2), Boys = [1,1,1,1,1]
C21_Witness ==
    /\ pc = "done"
    /\ L_total = 4
    /\ geom = Geoms[1]
    /\ Boys = BoysOnes(4)
    /\ R[1] = Half
    /\ R[2] # R[1]

\* C22: for a BottomUpHermiteE constructed with (max_nA, max_nB) and any
\* request with 0 <= nA <= max_nA, 0 <= nB <= max_nB, 0 <= t <= nA+nB, compute
\* returns the value HermiteE<nA,nB,t>::compute gives for the same PA, PB, p.
C22_BottomUpEqualsRecurrence ==
    (upc = "done") =>
        uVal = HermiteE(uReq[1], uReq[2], uReq[3], ugeom.PA, ugeom.PB, ugeom.p)

\* the recurrence of computeRecursive evaluated without the memo
RECURSIVE Unmemoized(_, _, _, _, _, _)
Unmemoized(a, b, tt, PA, PB, o2p) ==
    IF a < 0 \/ b < 0 \/ tt < 0 \/ tt > a + b THEN Vec8d(0)
    ELSE IF a = 0 /\ b = 0 /\ tt = 0 THEN Vec8d(1)
    ELSE IF a > 0 THEN
        IF tt = 0
          THEN RAdd[RMul[PA, Unmemoized(a - 1, b, 0, PA, PB, o2p)],
                    Unmemoized(a - 1, b, 1, PA, PB, o2p)]
          ELSE RAdd[RAdd[RMul[o2p, Unmemoized(a - 1, b, tt - 1, PA, PB, o2p)],
                         RMul[PA, Unmemoized(a - 1, b, tt, PA, PB, o2p)]],
                    RMul[Vec8d(tt + 1), Unmemoized(a - 1, b, tt + 1, PA, PB, o2p)]]
    ELSE
        IF tt = 0
          THEN RAdd[RMul[PB, Unmemoized(0, b - 1, 0, PA, PB, o2p)],
                    Unmemoized(0, b - 1, 1, PA, PB, o2p)]
          ELSE RAdd[RAdd[RMul[o2p, Unmemoized(0, b - 1, tt - 1, PA, PB, o2p)],
                         RMul[PB, Unmemoized(0, b - 1, tt, PA, PB, o2p)]],
                    RMul[Vec8d(tt + 1), Unmemoized(0, b - 1, tt + 1, PA, PB, o2p)]]

\* the index triples a NaiveHermiteE object can memoize
CacheTriples ==
    {w \in (0..naive_max_nA) \X (0..naive_max_nB) \X (0..max_t_) :
        w[3] <= w[1] + w[2]}

\* C23: in any sequence of compute calls on one NaiveHermiteE object, with
\* arguments within the constructed maxima, each call returns what the
\* unmemoized recurrence gives for its own arguments; every flag of the memo
\* is false when computeRecursive starts; and every entry flagged as computed
\* during the call holds the value recomputation gives, at an index of its own.
C23_MemoNeverStale ==
    /\ (mpc = "cleared") => \A k \in DOMAIN computed_ : ~computed_[k]
    /\ (mpc \in {"cleared", "done"}) =>
          /\ DOMAIN computed_ = DOMAIN cache_
          /\ \A w \in CacheTriples :
               /\ cacheIndex(w[1], w[2], w[3]) \in DOMAIN cache_
               /\ \A x \in CacheTriples :
                    cacheIndex(x[1], x[2], x[3]) = cacheIndex(w[1], w[2], w[3]) => x = w
               /\ computed_[cacheIndex(w[1], w[2], w[3])] =>
                    cache_[cacheIndex(w[1], w[2], w[3])] =
                        Unmemoized(w[1], w[2], w[3], PA_, PB_, one_over_2p_)
    /\ (mpc = "done") =>
          /\ PA_ = mgeom.PA /\ PB_ = mgeom.PB
          /\ mVal = Unmemoized(mReq[1], mReq[2], mReq[3], mgeom.PA, mgeom.PB,
                               RDiv[Vec8d(1), RMul[Vec8d(2), mgeom.p]])
          /\ mVal = HermiteE(mReq[1], mReq[2], mReq[3], mgeom.PA, mgeom.PB, mgeom.p)

\* the second call on one object has returned: it asked for E^{2,1}_1 at a
\* geometry other than the first call's, the vector still holds a value the
\* first call memoized for another geometry at the index of an entry the second
\* call did not visit, and the second call returned a memoized value of its own
C23_Witness ==
    /\ mpc = "done"
    /\ mCalls = 2
    /\ naive_max_nA = 2 /\ naive_max_nB = 2
    /\ mReq = <<2, 1, 1>>
    /\ mgeom = UnitGeom
    /\ mHits # {}
    /\ ~computed_[cacheIndex(2, 2, 0)]
    /\ cache_[cacheIndex(2, 2, 0)] # Zero
    /\ cache_[cacheIndex(2, 2, 0)] #
           Unmemoized(2, 2, 0, PA_, PB_, one_over_2p_)

\* the 125 triples with 0 <= nA, nB <= 4 and 0 <= t <= nA+nB
BenchTriples ==
    {w \in (0..BENCH_MAX_L) \X (0..BENCH_MAX_L) \X (0..(2 * BENCH_MAX_L)) :
        w[3] <= w[1] + w[2]}

\* both tables hold a function for each of the 125 triples, the symbolic one
\* being the closed form of the same triple
TablesHoldAll125 ==
    /\ Cardinality(BenchTriples) = 125
    /\ BenchTriples \subseteq TMPRegistered
    /\ BenchTriples \subseteq SymbolicRegistered
    /\ \A w \in BenchTriples : SymbolicTarget(w) = w

\* C24: for each of the 125 triples with 0 <= nA,nB <= 4 and 0 <= t <= nA+nB
\* both dispatch tables hold a registered function (the symbolic one being
\* hermite_e_symbolic_nA_nB_t), and SymbolicDispatcher::compute(nA,nB,t,PA,PB,
\* 1/(2p)) equals TMPDispatcher::compute(nA,nB,t,PA,PB,p), which is
\* HermiteE<nA,nB,t>::compute(PA,PB,p).
C24_SymbolicEqualsTMP ==
    /\ TablesHoldAll125
    /\ (bpc = "doneD" /\ <<hReq.nA, hReq.nB, hReq.t>> \in BenchTriples) =>
          /\ dSym = dTmp
          /\ dTmp = hVal
          /\ dSym = hermite_e_symbolic(hReq.nA, hReq.nB, hReq.t, hReq.g.PA,
                                       hReq.g.PB, OneOver2p(hReq.g.p))

\* both dispatchers have answered the request (4, 4, 8), the last of the 125
\* triples, with a value that is not zero
C24_Witness ==
    /\ bpc = "doneD"
    /\ hReq.nA = 4 /\ hReq.nB = 4 /\ hReq.t = 8
    /\ dSym # Zero
    /\ dTmp # Zero

\* C25: every entry of a returned layer beyond the valid range of its shell is
\* zero: for HermiteELayer<nA,nB>::compute the entries nA+nB < t < MAX_T, of
\* the layer each instantiation of the chain returns, of the layer its caller
\* then reads as prev (index t+1 and the top index included) and of the array
\* the outermost call returns; for CoulombRLayer<L_total>::compute the entries
\* tetrahedral(L_total) <= i < MAX_R_SIZE.
C25_BeyondRangeIsZero ==
    /\ (epc = "ret") =>
          \A i \in NValid(Top.nA, Top.nB)..(MAX_T - 1) : Top.result[i] = Zero
    /\ (epc \in {"t0", "mid", "top"}) =>
          /\ ePrevTop = Top.nA + Top.nB - 1
          /\ \A i \in (ePrevTop + 1)..(MAX_T - 1) : Top.prev[i] = Zero
    /\ (epc = "done") =>
          /\ DOMAIN E = 0..(MAX_T - 1)
          /\ \A i \in NValid(nA, nB)..(MAX_T - 1) : E[i] = Zero
    /\ (pc = "done") =>
          /\ DOMAIN R = 0..(MAX_R_SIZE - 1)
          /\ \A i \in tetrahedral(L_total)..(MAX_R_SIZE - 1) : R[i] = Zero

\* the top statement of layer (2,1) has just read prev[3], one above the last
\* valid index of the layer (1,1) it was handed, whose valid entries are not
\* all zero
C25_Witness ==
    /\ epc = "ret"
    /\ eStep = "top"
    /\ Top.nA = 2 /\ Top.nB = 1
    /\ ePrevTop = 2
    /\ 3 \in eReads
    /\ Top.prev[2] # Zero
    /\ Top.result[3] # Zero

\* C26: for all nA, nB in 0..4, 0 <= t <= nA+nB and all PA, PB, p # 0,
\* HermiteE<nA,nB,t>::compute(PA,PB,p) = HermiteE<nB,nA,t>::compute(PB,PA,p):
\* the path that lowers nA first (the B-side recurrence only at nA = 0) gives
\* the value of the mirrored path.
C26_ExchangeSymmetry ==
    (bpc \in {"sym", "doneE", "doneD"}
       /\ hReq.nA \in 0..MAX_L /\ hReq.nB \in 0..MAX_L
       /\ hReq.t \in 0..(hReq.nA + hReq.nB)) =>
        hVal = HermiteE(hReq.nB, hReq.nA, hReq.t, hReq.g.PB, hReq.g.PA, hReq.g.p)

\* hermite_e<3,1,2> has returned a value that is not zero, at a geometry with
\* PA # PB, where swapping the displacements alone changes the value: its path
\* lowers nA three times and then takes one B-side step, the mirrored call
\* HermiteE<1,3,2> lowers its first index once and takes three B-side steps
C26_Witness ==
    /\ bpc = "doneE"
    /\ hReq.nA = 3 /\ hReq.nB = 1 /\ hReq.t = 2
    /\ hReq.g.PA # hReq.g.PB
    /\ hVal # Zero
    /\ hVal # HermiteE(3, 1, 2, hReq.g.PB, hReq.g.PA, hReq.g.p)

\* C27: in each iteration N of CoulombRLayer<L_total>::compute, after the
\* clear only offset 0 (the base case) is assigned; every z-, y- and
\* x-recurrence then assigns exactly one offset that nothing has assigned in
\* this iteration; and when the loops end the assigned offsets are exactly
\* [0, tetrahedral(L_total-N)): each entry of the shell is assigned once.
C27_WritesPartitionShell ==
    /\ []((pc = "z" /\ v = 1) => currInfo.def = {0})
    /\ [][(pc \in {"z", "y", "x"}) =>
            /\ Cardinality(currWrites') = 1
            /\ currWrites' \cap currInfo.def = {}
            /\ currInfo'.def = currInfo.def \cup currWrites']_vars
    /\ []((pc = "swap") =>
            /\ L_max_at_N = L_total - N
            /\ currInfo.def = 0..(tetrahedral(L_total - N) - 1))

\* the loops of iteration N = 1 of CoulombRLayer<4> have ended: the shell of
\* degree 3 has its 20 offsets assigned, the last of them by an x-recurrence
C27_Witness ==
    /\ pc = "swap"
    /\ L_total = 4
    /\ N = 1
    /\ Cardinality(currInfo.def) = 20
    /\ currWrites = {r_index(3, 0, 0)}

\* number of entries of a table indexed from 0
Len0(B) == Cardinality(DOMAIN B)

\* C28: CoulombRDerivPCx<t,u,v,N>::compute reads the Boys table only at
\* indices CoulombR<t,u,v,N>::compute may read, within [N, N+t+u+v], so a
\* table of t+u+v+1 entries, long enough for CoulombR<t,u,v,0>, is long
\* enough for CoulombRDerivPCx<t,u,v,0>.
C28_DerivReadsWithinCoulombR ==
    (bpc = "doneP") =>
        /\ pReads \subseteq CoulombRReads(pReq.t, pReq.u, pReq.v, pReq.N)
        /\ pReads \subseteq pReq.N..(pReq.N + pReq.t + pReq.u + pReq.v)
        /\ (pReq.N = 0 /\ Len0(pReq.B) = pReq.t + pReq.u + pReq.v + 1) =>
              pReads \subseteq DOMAIN pReq.B

\* C29: a Hermite-E layer request outside the supported range (nA > MAX_L or
\* nB > MAX_L) is rejected instead of evaluated, and neither
\* HermiteELayer<nA,nB>::compute nor HermiteEOpt<nA,nB,t>::compute writes or
\* reads a layer entry at an index >= MAX_T.
C29_OutOfRangeRejected ==
    /\ (epc # "idle") => (nA <= MAX_L /\ nB <= MAX_L)
    /\ eReads \cup eWrites \subseteq 0..(MAX_T - 1)

\* C30: for every t, u, v >= 0 with t+u+v <= 4,
\* mcmd_coulomb::CoulombRCoeff<t,u,v,0>::compute returns the value
\* CoulombR<t,u,v,0>::compute returns for the same PC and Boys table.
C30_CoeffEqualsCoulombR ==
    (bpc = "doneK" /\ kReq.N = 0 /\ kReq.t + kReq.u + kReq.v <= 4) =>
        kVal = CoulombR(kReq.t, kReq.u, kReq.v, 0, kReq.g.PCx, kReq.g.PCy,
                        kReq.g.PCz, kReq.B)

====
